---- MODULE Spec2Model ----
(***************************************************************************)
(* Card identification pipeline of mtgcardlookup: the Lambda handler       *)
(* (sam-backend/src/index.js), the extension's service worker              *)
(* (background.js) and its content script (content.js).                    *)
(*                                                                         *)
(* Strings are sequences of one-character strings; error messages are      *)
(* sequences of words; byte buffers are sequences of 0..255.               *)
(***************************************************************************)
EXTENDS Integers, Sequences, FiniteSets, TLC

VARIABLES
    \* ---- cleanCardName harness (SpecClean)
    ccText,      \* the text handed to cleanCardName
    ccFirst,     \* cleanCardName(ccText), once ccPc has left "start"
    ccSecond,    \* cleanCardName(ccFirst), once ccPc = "recleaned"
    ccPc,        \* "start" | "cleaned" | "recleaned" | "idle"
    \* ---- validateImage harness (SpecValidate)
    viBytes,     \* the bytes the payload was encoded from
    viPayload,   \* the base64 text handed to validateImage
    viResult,    \* what validateImage returned, once viPc = "done"
    viPc,        \* "start" | "done" | "idle"
    \* ---- card record harness (SpecCard)
    lcRecord,    \* the card-database record c that lookupCard parsed
    lcResult,    \* the result object built from it, once lcPc = "done"
    lcPc,        \* "start" | "done" | "idle"
    \* ---- Lambda process (Spec)
    clock,            \* Date.now(), in milliseconds
    lastScryfallCall, \* the module-level timestamp of the rate limiter
    apiKey,           \* process.env.GEMINI_API_KEY is set
    hs,               \* handler invocation -> its frame (see IdleFrame)
    scryfallLog,      \* the times at which card-database requests were issued
    dom,              \* the overlay elements of document.body, in document order
    runs,             \* lookup run -> its request and how far it got (see NoRun)
    triggers,         \* the number of lookup runs started so far
    cpCursor,         \* capture harness: currentCursorX, currentCursorY
    cpViewport,       \* capture harness: window.innerWidth, window.innerHeight
    cpCanvas,         \* capture harness: what captureRegionAroundCursor returned
    cpPc,             \* capture harness: "idle", "start" or "done"
    poOutcome,        \* OCR harness: what performOCR's fetch settles with
    poResult,         \* OCR harness: what performOCR returned or threw
    poRequests,       \* OCR harness: the requests performOCR has sent
    poPc              \* OCR harness: "idle", "start", "wait" or "done"

ccVars == <<ccText, ccFirst, ccSecond, ccPc>>

viVars == <<viBytes, viPayload, viResult, viPc>>

lcVars == <<lcRecord, lcResult, lcPc>>

beVars == <<clock, lastScryfallCall, apiKey, hs, scryfallLog>>

uiVars == <<dom, runs, triggers>>

cpVars == <<cpCursor, cpViewport, cpCanvas, cpPc>>

poVars == <<poOutcome, poResult, poRequests, poPc>>

vars == <<ccVars, viVars, lcVars, beVars, uiVars, cpVars, poVars>>

\* what each harness leaves alone
notCc == <<viVars, lcVars, beVars, uiVars, cpVars, poVars>>

notVi == <<ccVars, lcVars, beVars, uiVars, cpVars, poVars>>

notLc == <<ccVars, viVars, beVars, uiVars, cpVars, poVars>>

notBe == <<ccVars, viVars, lcVars, uiVars, cpVars, poVars>>

notUi == <<ccVars, viVars, lcVars, beVars, cpVars, poVars>>

notCp == <<ccVars, viVars, lcVars, beVars, uiVars, poVars>>

notPo == <<ccVars, viVars, lcVars, beVars, uiVars, cpVars>>

\* the JavaScript values null and undefined, where a text is expected
Null == "null"

\* a harness that is not part of the specification at hand stays idle
UiIdle ==
    /\ dom = <<>>
    /\ runs = <<>>
    /\ triggers = 0

CaptureIdle ==
    /\ cpCursor = <<0, 0>>
    /\ cpViewport = <<0, 0>>
    /\ cpCanvas = [present |-> FALSE, width |-> 0, height |-> 0]
    /\ cpPc = "idle"

CleanIdle ==
    /\ ccText = <<>>
    /\ ccFirst = <<>>
    /\ ccSecond = <<>>
    /\ ccPc = "idle"

ValidateIdle ==
    /\ viBytes = <<>>
    /\ viPayload = <<>>
    /\ viResult = FALSE
    /\ viPc = "idle"

\* the JavaScript value undefined, where a string (a sequence) is expected
Undefined == <<"undefined">>

(***************************************************************************)
(* Bounds of the model                                                     *)
(***************************************************************************)
\* longest enumerated tail of a cleanCardName input
MaxLen == 3

(***************************************************************************)
(* Generic helpers                                                         *)
(***************************************************************************)
Min(a, b) == IF a < b THEN a ELSE b

Max(a, b) == IF a > b THEN a ELSE b

\* all sequences over S of length 0..n
SeqsUpTo(S, n) == UNION { [1..k -> S] : k \in 0..n }

\* n copies of c
Repeat(c, n) == [i \in 1..n |-> c]

(***************************************************************************)
(* JavaScript string primitives used by cleanCardName                      *)
(***************************************************************************)
Letters ==
    { "a","b","c","d","e","f","g","h","i","j","k","l","m",
      "n","o","p","q","r","s","t","u","v","w","x","y","z",
      "A","B","C","D","E","F","G","H","I","J","K","L","M",
      "N","O","P","Q","R","S","T","U","V","W","X","Y","Z" }

Digits == { "0","1","2","3","4","5","6","7","8","9" }

\* the characters matched by \s (and removed by String.prototype.trim)
Whitespace == { " ", "\t", "\n", "\r", "\f" }

\* String.prototype.trim: drop leading and trailing whitespace
RECURSIVE TrimStart(_)
TrimStart(s) ==
    IF s = <<>> THEN <<>>
    ELSE IF Head(s) \in Whitespace THEN TrimStart(Tail(s))
    ELSE s

RECURSIVE TrimEnd(_)
TrimEnd(s) ==
    IF s = <<>> THEN <<>>
    ELSE IF s[Len(s)] \in Whitespace THEN TrimEnd(SubSeq(s, 1, Len(s) - 1))
    ELSE s

Trim(s) == TrimEnd(TrimStart(s))

\* .replace(/\s+/g, ' '): every maximal run of whitespace becomes one space
RECURSIVE CollapseWhitespace(_)
CollapseWhitespace(s) ==
    IF s = <<>> THEN <<>>
    ELSE IF Head(s) \in Whitespace
         THEN <<" ">> \o CollapseWhitespace(TrimStart(s))
         ELSE <<Head(s)>> \o CollapseWhitespace(Tail(s))

\* the class [a-zA-Z0-9\s\-'] of the stripping regex
NameChar(c) == c \in Letters \cup Digits \cup Whitespace \cup { "-", "'" }

\* .replace(/[^a-zA-Z0-9\s\-']/g, ''): delete every character outside the class
StripDisallowed(s) == SelectSeq(s, NameChar)

\* .substring(0, n)
Substring0(s, n) == SubSeq(s, 1, Min(n, Len(s)))

\* the literal 50 of cleanCardName
MaxNameLen == 50

\* cleanCardName with a whitespace regex that only knows the space character
cleanCardName_SpacesOnly(text) ==
    IF text = Undefined \/ text = <<>> THEN <<>>
    ELSE LET RECURSIVE collapse(_)
             collapse(s) ==
                 IF s = <<>> THEN <<>>
                 ELSE IF Head(s) = " " /\ Len(s) > 1 /\ s[2] = " "
                      THEN collapse(Tail(s))
                      ELSE <<Head(s)>> \o collapse(Tail(s))
         IN Substring0(StripDisallowed(collapse(Trim(text))), MaxNameLen)

cleanCardName(text) ==
    IF text = Undefined \/ text = <<>> THEN <<>>
    ELSE Substring0(StripDisallowed(CollapseWhitespace(Trim(text))), MaxNameLen)

(***************************************************************************)
(* Base64 text: a sequence of characters, each a sextet 0..63 (a character *)
(* of the base64 alphabet) or Junk (any other character, which             *)
(* Buffer.from(text, 'base64') skips)                                      *)
(***************************************************************************)
Junk == -1

\* a payload that is no string at all (a number, an object, undefined)
NonString == << -2 >>

\* Buffer.prototype.toString('base64') / canvas.toDataURL: three bytes become
\* four sextets; the '=' padding is left out, decoders ignore it
RECURSIVE Base64Encode(_)
Base64Encode(b) ==
    IF Len(b) = 0 THEN <<>>
    ELSE IF Len(b) = 1 THEN << b[1] \div 4, (b[1] % 4) * 16 >>
    ELSE IF Len(b) = 2
         THEN << b[1] \div 4, (b[1] % 4) * 16 + b[2] \div 16, (b[2] % 16) * 4 >>
    ELSE << b[1] \div 4, (b[1] % 4) * 16 + b[2] \div 16,
            (b[2] % 16) * 4 + b[3] \div 64, b[3] % 64 >>
         \o Base64Encode(SubSeq(b, 4, Len(b)))

RECURSIVE DecodeSextets(_)
DecodeSextets(x) ==
    IF Len(x) < 2 THEN <<>>
    ELSE IF Len(x) = 2 THEN << x[1] * 4 + x[2] \div 16 >>
    ELSE IF Len(x) = 3
         THEN << x[1] * 4 + x[2] \div 16, (x[2] % 16) * 16 + x[3] \div 4 >>
    ELSE << x[1] * 4 + x[2] \div 16, (x[2] % 16) * 16 + x[3] \div 4,
            (x[3] % 4) * 64 + x[4] >>
         \o DecodeSextets(SubSeq(x, 5, Len(x)))

IsSextet(c) == c \in 0..63

\* Buffer.from(text, 'base64'): never fails on a string, skips what is not base64
Base64Decode(text) == DecodeSextets(SelectSeq(text, IsSextet))

(***************************************************************************)
(* validateImage                                                           *)
(***************************************************************************)
EXPECTED_WIDTH == 250

EXPECTED_HEIGHT == 120

\* An unsigned 32-bit number is kept as its two 16-bit halves <<high, low>>:
\* the model checker's integers are signed 32-bit and cannot hold 2^32 - 1.
UInt32(n) == << n \div 65536, n % 65536 >>

\* a read of the four bytes in the wrong byte order
ReadUInt32LE(buffer, offset) ==
    << buffer[offset + 4] * 256 + buffer[offset + 3],
       buffer[offset + 2] * 256 + buffer[offset + 1] >>

\* Buffer.prototype.readUInt32BE(offset), offset counted from 0
ReadUInt32BE(buffer, offset) ==
    << buffer[offset + 1] * 256 + buffer[offset + 2],
       buffer[offset + 3] * 256 + buffer[offset + 4] >>

\* Buffer.from throws a TypeError on a value that is no string; the catch
\* clause turns every exception into false
validateImage(base64Image) ==
    IF base64Image = NonString THEN FALSE
    ELSE LET buffer == Base64Decode(base64Image)
         IN IF \/ Len(buffer) < 24
               \/ buffer[1] # 137   \* 0x89
               \/ buffer[2] # 80    \* 0x50
               \/ buffer[3] # 78    \* 0x4E
               \/ buffer[4] # 71    \* 0x47
            THEN FALSE
            ELSE LET width == ReadUInt32BE(buffer, 16)
                     height == ReadUInt32BE(buffer, 20)
                 IN width = UInt32(EXPECTED_WIDTH) /\ height = UInt32(EXPECTED_HEIGHT)

(***************************************************************************)
(* validateImage harness: validateImage applied to encoded image headers   *)
(***************************************************************************)
\* the first 26 bytes of a PNG file: signature, IHDR chunk header, width,
\* height, bit depth and colour type
PngHeader(sig, w, h) ==
    sig \o <<13, 10, 26, 10>> \o <<0, 0, 0, 13>> \o <<73, 72, 68, 82>>
        \o w \o h \o <<8, 6>>

Signatures ==
    { <<137, 80, 78, 71>>, <<255, 216, 255, 224>>, <<137, 80, 78, 0>>,
      <<0, 80, 78, 71>>, <<137, 80, 71, 78>> }

WidthFields ==
    { <<0, 0, 0, 250>>, <<0, 0, 0, 249>>, <<0, 0, 1, 250>>, <<250, 0, 0, 0>>,
      <<0, 0, 0, 120>> }

HeightFields ==
    { <<0, 0, 0, 120>>, <<0, 0, 0, 121>>, <<1, 0, 0, 120>>, <<120, 0, 0, 0>>,
      <<0, 0, 0, 250>> }

PayloadLengths == { 0, 3, 23, 24, 26 }

HeaderBytes ==
    { Substring0(PngHeader(sig, w, h), n) :
        sig \in Signatures, w \in WidthFields, h \in HeightFields,
        n \in PayloadLengths }

\* the text 'notvalidbase64' of the handler's test, and the bytes it decodes to
NotValidBase64 == <<39, 40, 45, 47, 26, 37, 34, 29, 27, 26, 44, 30, 58, 56>>

NotValidBase64Bytes == <<158, 139, 111, 106, 88, 157, 109, 171, 30, 235>>

\* a line break after the first character, as MIME-wrapped base64 has
WithJunk(text) ==
    IF text = <<>> THEN <<Junk>> ELSE <<Head(text), Junk>> \o Tail(text)

ValidateStart ==
    /\ viPc = "start"
    /\ viResult = FALSE
    /\ \/ /\ viBytes \in HeaderBytes
          /\ viPayload \in { Base64Encode(viBytes), WithJunk(Base64Encode(viBytes)) }
       \/ /\ viBytes = NotValidBase64Bytes
          /\ viPayload = NotValidBase64
       \/ /\ viBytes = <<>>
          /\ viPayload = NonString

Validate ==
    /\ viPc = "start"
    /\ viResult' = validateImage(viPayload)
    /\ viPc' = "done"
    /\ UNCHANGED <<viBytes, viPayload, notVi>>

(***************************************************************************)
(* cleanCardName harness: cleanCardName applied to bounded inputs, and     *)
(* applied again to its own output                                         *)
(***************************************************************************)
CleanAlphabet == { "a", "7", " ", "\t", "-", "'", "!" }

\* lengths of the run of letters put in front of the enumerated tail, so that
\* the 50-character cut falls inside, at the end of and after the tail
PadLens == { 0 } \cup { MaxNameLen - k : k \in 0..MaxLen }

CleanInputs ==
    { Undefined } \cup
    { Repeat("a", n) \o t : n \in PadLens, t \in SeqsUpTo(CleanAlphabet, MaxLen) }

CleanStart ==
    /\ ccText \in CleanInputs
    /\ ccFirst = <<>>
    /\ ccSecond = <<>>
    /\ ccPc = "start"

Clean ==
    /\ ccPc = "start"
    /\ ccFirst' = cleanCardName(ccText)
    /\ ccPc' = "cleaned"
    /\ UNCHANGED <<ccText, ccSecond, notCc>>

Reclean ==
    /\ ccPc = "cleaned"
    /\ ccSecond' = cleanCardName(ccFirst)
    /\ ccPc' = "recleaned"
    /\ UNCHANGED <<ccText, ccFirst, notCc>>

(***************************************************************************)
(* lookupCard: the result object built from a card-database record         *)
(*                                                                         *)
(* An optional object is a record with a "present" flag; an optional text  *)
(* is the text or Null.                                                    *)
(***************************************************************************)
\* a || b on texts: the empty text and null/undefined are falsy
Truthy(x) == x \notin { Null, "" }

Or(a, b) == IF Truthy(a) THEN a ELSE b

NoImageUris == [present |-> FALSE, normal |-> Null, large |-> Null]

NoFace == [present |-> FALSE, image_uris |-> NoImageUris,
           oracle_text |-> Null, mana_cost |-> Null]

\* c.card_faces?.[i] and c.card_faces[i], i counted from 0
FaceAt(c, i) ==
    IF c.has_card_faces /\ i + 1 <= Len(c.card_faces)
    THEN c.card_faces[i + 1]
    ELSE NoFace

\* a test for faces that forgets the top-level image data
isDoubleFaced_FacesOnly(c) == c.has_card_faces

\* c.card_faces && !c.image_uris (an empty array is truthy)
isDoubleFaced(c) == c.has_card_faces /\ ~c.image_uris.present

\* c.image_uris || c.card_faces?.[0]?.image_uris
imageUris(c) ==
    IF c.image_uris.present THEN c.image_uris ELSE FaceAt(c, 0).image_uris

NoCard ==
    [name |-> Null, imageUrl |-> Null, set |-> Null, setName |-> Null,
     type |-> Null, oracleText |-> Null, manaCost |-> Null, rarity |-> Null,
     hasBackImageUrl |-> FALSE, backImageUrl |-> Null]

\* hasBackImageUrl: the assignment to result.backImageUrl was executed
lookupCardResult(c) ==
    LET result ==
            [name |-> c.name,
             imageUrl |-> Or(imageUris(c).normal, imageUris(c).large),
             set |-> c.set, setName |-> c.set_name, type |-> c.type_line,
             oracleText |-> Or(c.oracle_text, FaceAt(c, 0).oracle_text),
             manaCost |-> Or(c.mana_cost, FaceAt(c, 0).mana_cost),
             rarity |-> c.rarity,
             hasBackImageUrl |-> FALSE, backImageUrl |-> Null]
    IN IF isDoubleFaced(c) /\ FaceAt(c, 1).image_uris.present
       THEN [result EXCEPT
               !.hasBackImageUrl = TRUE,
               !.backImageUrl = Or(FaceAt(c, 1).image_uris.normal,
                                   FaceAt(c, 1).image_uris.large)]
       ELSE result

(***************************************************************************)
(* Card record harness: card-database records of every shape               *)
(***************************************************************************)
\* most faces of an enumerated record
MaxFaces == 2

\* image data that is absent, complete, without the normal size, or with
\* neither the normal nor the large size (only small, png, art_crop, ...)
ImageUrisOf(owner) ==
    { NoImageUris,
      [present |-> TRUE, normal |-> owner.normal, large |-> owner.large],
      [present |-> TRUE, normal |-> Null, large |-> owner.large],
      [present |-> TRUE, normal |-> Null, large |-> Null] }

TopUrls == [normal |-> "card/normal.jpg", large |-> "card/large.jpg"]

FaceUrls(i) ==
    CASE i = 1 -> [normal |-> "front/normal.jpg", large |-> "front/large.jpg"]
      [] i = 2 -> [normal |-> "back/normal.jpg", large |-> "back/large.jpg"]
      [] OTHER -> [normal |-> "extra/normal.jpg", large |-> "extra/large.jpg"]

FacesOf(n) ==
    { f \in [1..n -> [present : {TRUE}, image_uris : UNION { ImageUrisOf(FaceUrls(i)) : i \in 1..n },
                      oracle_text : {"Face text."}, mana_cost : {"{1}{G}"}]] :
        \A i \in 1..n : f[i].image_uris \in ImageUrisOf(FaceUrls(i)) }

CardRecords ==
    { [name |-> "Delver of Secrets", set |-> "isd", set_name |-> "Innistrad",
       type_line |-> "Creature", rarity |-> "common",
       oracle_text |-> o, mana_cost |-> o,
       image_uris |-> img, has_card_faces |-> hf, card_faces |-> fs] :
        o \in { Null, "Top text." },
        img \in ImageUrisOf(TopUrls),
        hf \in BOOLEAN,
        fs \in UNION { FacesOf(n) : n \in 0..MaxFaces } }

CardIdle ==
    /\ lcRecord = NoCard
    /\ lcResult = NoCard
    /\ lcPc = "idle"

CardStart ==
    /\ lcRecord \in { c \in CardRecords : c.has_card_faces \/ c.card_faces = <<>> }
    /\ lcResult = NoCard
    /\ lcPc = "start"

BuildCard ==
    /\ lcPc = "start"
    /\ lcResult' = lookupCardResult(lcRecord)
    /\ lcPc' = "done"
    /\ UNCHANGED <<lcRecord, notLc>>

(***************************************************************************)
(* Error messages: sequences of words (a spliced-in text contributes its   *)
(* characters)                                                             *)
(***************************************************************************)
\* String.prototype.includes on word sequences
Includes(msg, pat) ==
    \E i \in 1..(Len(msg) - Len(pat) + 1) : SubSeq(msg, i, i + Len(pat) - 1) = pat

MsgInvalidKey == <<"Invalid", "Gemini", "API", "key">>

MsgRateLimit == <<"Rate", "limit", "exceeded">>

\* `Gemini API error: ${resp.status} - ${errorBody}`
MsgGeminiError(status, errorBody) ==
    <<"Gemini", "API", "error", ":", ToString(status), "-">> \o errorBody

\* `Card not found: "${cardName}"`
MsgCardNotFound(cardName) ==
    <<"Card", "not", "found", ":", "\"">> \o cardName \o <<"\"">>

\* `Scryfall API error: ${resp.status}`
MsgScryfallError(status) == <<"Scryfall", "API", "error", ":", ToString(status)>>

\* what fetch rejects with when the transport fails
MsgFetchFailed == <<"fetch", "failed">>

\* the SyntaxError of JSON.parse and of Response.json()
MsgJsonSyntax == <<"Unexpected", "token", "<", "in", "JSON">>

\* the TypeError of reading a property of null
MsgNullProperty == <<"Cannot", "read", "properties", "of", "null">>

\* the TypeError of calling a string method on a value that is no string
MsgNotAFunction == <<"is", "not", "a", "function">>

(***************************************************************************)
(* Events and HTTP responses of the handler                                *)
(***************************************************************************)
\* a JSON value that is absent
NoValue == [type |-> "undefined", text |-> <<>>]

Str(text) == [type |-> "string", text |-> text]

\* a JSON number where a string is expected
Num == [type |-> "number", text |-> <<>>]

\* truthiness of a JSON value: undefined and '' are falsy, a number here is not 0
TruthyValue(v) == v.type = "number" \/ (v.type = "string" /\ v.text # <<>>)

\* characters of a data URL that are outside the base64 alphabet
Colon == -3

Semicolon == -4

Comma == -5

\* 'data:image/png;base64,'
DataUrlPrefix ==
    <<29, 26, 45, 26, Colon, 34, 38, 26, 32, 30, 63, 41, 39, 32, Semicolon,
      27, 26, 44, 30, 58, 56, Comma>>

StartsWith(text, prefix) ==
    Len(text) >= Len(prefix) /\ SubSeq(text, 1, Len(prefix)) = prefix

\* body.image.replace(/^data:image\/\w+;base64,/, '')
StripDataUrl(text) ==
    IF StartsWith(text, DataUrlPrefix)
    THEN SubSeq(text, Len(DataUrlPrefix) + 1, Len(text))
    ELSE text

NoBody == [found |-> "absent", card |-> NoCard, detectedName |-> Undefined,
           error |-> <<>>]

NoResp == [statusCode |-> 0, body |-> NoBody]

\* { statusCode, headers, body: JSON.stringify({ error }) }
ErrorResp(status, message) ==
    [statusCode |-> status, body |-> [NoBody EXCEPT !.error = message]]

\* { statusCode: 200, headers, body: JSON.stringify({ found: false }) }
NotFoundResp == [statusCode |-> 200, body |-> [NoBody EXCEPT !.found = "false"]]

\* { statusCode: 200, headers, body: JSON.stringify({ found: true, card }) }
FoundResp(card) ==
    [statusCode |-> 200, body |-> [NoBody EXCEPT !.found = "true", !.card = card]]

\* ... JSON.stringify({ found: true, card, detectedName: cardName })
FoundDetectedResp(card, cardName) ==
    [statusCode |-> 200,
     body |-> [NoBody EXCEPT !.found = "true", !.card = card,
                             !.detectedName = cardName]]

badRequest == ErrorResp(400, <<"Bad", "request">>)

\* event.path || event.requestContext?.http?.path || ''
EventPath(event) == IF event.path # <<>> THEN event.path ELSE event.httpPath

\* path.endsWith('/lookup-by-name'), a path being its sequence of segments
EndsWithLookupByName(path) == path # <<>> /\ path[Len(path)] = "lookup-by-name"

(***************************************************************************)
(* Outcomes of the two external calls                                      *)
(***************************************************************************)
\* resp.ok
Ok(status) == status \in 200..299

NoOcr == [kind |-> "none", status |-> 0, errorBody |-> <<>>, json |-> "ok",
          hasCandidates |-> FALSE, parts |-> <<>>]

OcrReject == [NoOcr EXCEPT !.kind = "reject"]

OcrError(status, errorBody) ==
    [NoOcr EXCEPT !.kind = "response", !.status = status, !.errorBody = errorBody]

\* a 200 answer whose first candidate has these parts (<<>>: a part without text)
OcrParts(parts) ==
    [NoOcr EXCEPT !.kind = "response", !.status = 200, !.hasCandidates = TRUE,
                  !.parts = parts]

OcrNoCandidates == [NoOcr EXCEPT !.kind = "response", !.status = 200]

OcrBadJson == [NoOcr EXCEPT !.kind = "response", !.status = 200, !.json = "malformed"]

NoScry == [kind |-> "none", status |-> 0, json |-> "ok", record |-> NoCard]

ScryReject == [NoScry EXCEPT !.kind = "reject"]

ScryStatus(status) == [NoScry EXCEPT !.kind = "response", !.status = status]

ScryRecord(c) ==
    [kind |-> "response", status |-> 200, json |-> "ok", record |-> c]

ScryBadJson == [NoScry EXCEPT !.kind = "response", !.status = 200, !.json = "malformed"]

\* a value returned or an exception thrown
Returned(v) == [threw |-> FALSE, message |-> <<>>, value |-> v]

Threw(message) == [threw |-> TRUE, message |-> message, value |-> Undefined]

ThrewNoCard(message) == [threw |-> TRUE, message |-> message, value |-> NoCard]

\* p => p.text, a part without text being <<>>
HasText(p) == p # <<>>

\* Array.prototype.join(' ')
RECURSIVE Join(_)
Join(texts) ==
    IF texts = <<>> THEN <<>>
    ELSE IF Len(texts) = 1 THEN texts[1]
    ELSE texts[1] \o <<" ">> \o Join(Tail(texts))

\* parts.filter(p => p.text).map(p => p.text).join(' ')
JoinTexts(parts) == Join(SelectSeq(parts, HasText))

\* the sentinel 'NONE'
NONE == <<"N", "O", "N", "E">>

\* performOCR without the test of its last line: the text is returned as it is
performOCR_NoNullCheck(o) ==
    IF o.kind = "reject" THEN Threw(MsgFetchFailed)
    ELSE IF ~Ok(o.status)
         THEN IF o.status = 401 \/ o.status = 403 THEN Threw(MsgInvalidKey)
              ELSE IF o.status = 429 THEN Threw(MsgRateLimit)
              ELSE Threw(MsgGeminiError(o.status, o.errorBody))
    ELSE IF o.json = "malformed" THEN Threw(MsgJsonSyntax)
    ELSE IF ~o.hasCandidates THEN Returned(Undefined)
    ELSE Returned(Trim(JoinTexts(o.parts)))

\* performOCR from the moment its fetch settles; null is Undefined
performOCR(o) ==
    IF o.kind = "reject" THEN Threw(MsgFetchFailed)
    ELSE IF ~Ok(o.status)
         THEN IF o.status = 401 \/ o.status = 403 THEN Threw(MsgInvalidKey)
              ELSE IF o.status = 429 THEN Threw(MsgRateLimit)
              ELSE Threw(MsgGeminiError(o.status, o.errorBody))
    ELSE IF o.json = "malformed" THEN Threw(MsgJsonSyntax)
    ELSE IF ~o.hasCandidates THEN Returned(Undefined)
    ELSE LET text == Trim(JoinTexts(o.parts))
         IN IF text = <<>> \/ text = NONE THEN Returned(Undefined)
            ELSE Returned(text)

\* lookupCard from the moment its fetch settles
lookupCard(cardName, o) ==
    IF o.kind = "reject" THEN ThrewNoCard(MsgFetchFailed)
    ELSE IF ~Ok(o.status)
         THEN IF o.status = 404 THEN ThrewNoCard(MsgCardNotFound(cardName))
              ELSE ThrewNoCard(MsgScryfallError(o.status))
    ELSE IF o.json = "malformed" THEN ThrewNoCard(MsgJsonSyntax)
    ELSE Returned(lookupCardResult(o.record))

(***************************************************************************)
(* The handler, one frame per invocation                                   *)
(*                                                                         *)
(* pc: "idle"      not invoked                                             *)
(*     "ocr_wait"  awaiting the OCR service (performOCR's fetch)           *)
(*     "lookup"    about to call lookupCard (left within the same step)    *)
(*     "rl_wait"   awaiting the timer of rateLimitScryfall                 *)
(*     "scry_wait" awaiting the card database (lookupCard's fetch)         *)
(*     "returned"  the handler's promise resolved with frame.resp          *)
(***************************************************************************)
SCRYFALL_RATE_LIMIT_MS == 100

NoEvent == [path |-> <<>>, httpPath |-> <<>>, json |-> "absent",
            image |-> NoValue, name |-> NoValue]

IdleFrame ==
    [pc |-> "idle", event |-> NoEvent, base64 |-> <<>>, cardName |-> <<>>,
     wakeAt |-> 0, resp |-> NoResp, ocr |-> NoOcr, scry |-> NoScry,
     validations |-> 0, ocrRequests |-> 0, scryRequests |-> 0]

\* return resp
Return(f, resp) == [f EXCEPT !.pc = "returned", !.resp = resp]

\* a catch clause that lets the exception escape the handler
handlerCatch_Rethrow(f, message) == [f EXCEPT !.pc = "threw"]

\* a catch clause that reports every exception as an error
handlerCatch_AlwaysError(f, message) == Return(f, ErrorResp(500, message))

\* catch (e) { ... }
handlerCatch(f, message) ==
    IF Includes(message, <<"not", "found">>)
    THEN Return(f, NotFoundResp)
    ELSE Return(f, ErrorResp(500, message))

\* a /lookup-by-name prologue that validates body.image before it looks at
\* body.name
ByNamePrologue_Validated(f, key) ==
    LET body == f.event
        g == [f EXCEPT !.validations = @ + 1]
    IN IF body.json = "null" THEN handlerCatch(f, MsgNullProperty)
       ELSE IF ~validateImage(StripDataUrl(body.image.text))
            THEN Return(g, ErrorResp(400, <<"Invalid", "image">>))
       ELSE IF ~TruthyValue(body.name) THEN Return(g, badRequest)
       ELSE [g EXCEPT !.pc = "lookup", !.cardName = cleanCardName(body.name.text)]

\* lines 102-106, up to the call of lookupCard
ByNamePrologue(f, key) ==
    LET body == f.event
    IN IF body.json = "null" THEN handlerCatch(f, MsgNullProperty)
       ELSE IF ~TruthyValue(body.name) THEN Return(f, badRequest)
       ELSE IF body.name.type # "string" THEN handlerCatch(f, MsgNotAFunction)
       ELSE LET cardName == cleanCardName(body.name.text)
            IN IF cardName = <<>> THEN Return(f, NotFoundResp)
               ELSE [f EXCEPT !.pc = "lookup", !.cardName = cardName]

\* the /lookup prologue without the check of the image
LookupPrologue_NoValidation(f, key) ==
    LET body == f.event
    IN IF body.json = "null" THEN handlerCatch(f, MsgNullProperty)
       ELSE IF ~TruthyValue(body.image)
            THEN Return(f, ErrorResp(400, <<"Missing", "image">>))
       ELSE IF body.image.type # "string" THEN handlerCatch(f, MsgNotAFunction)
       ELSE LET base64 == StripDataUrl(body.image.text)
            IN IF ~key
               THEN Return(f, ErrorResp(500, <<"Server", "config", "error">>))
               ELSE [f EXCEPT !.pc = "ocr_wait", !.base64 = base64,
                              !.ocrRequests = @ + 1]

\* lines 111-116, up to the fetch of performOCR
LookupPrologue(f, key) ==
    LET body == f.event
    IN IF body.json = "null" THEN handlerCatch(f, MsgNullProperty)
       ELSE IF ~TruthyValue(body.image)
            THEN Return(f, ErrorResp(400, <<"Missing", "image">>))
       ELSE IF body.image.type # "string" THEN handlerCatch(f, MsgNotAFunction)
       ELSE LET base64 == StripDataUrl(body.image.text)
                g == [f EXCEPT !.base64 = base64, !.validations = @ + 1]
            IN IF ~validateImage(base64)
               THEN Return(g, ErrorResp(400, <<"Invalid", "image">>))
               ELSE IF ~key
               THEN Return(g, ErrorResp(500, <<"Server", "config", "error">>))
               ELSE [g EXCEPT !.pc = "ocr_wait", !.ocrRequests = @ + 1]

\* lines 96-116: the handler from its call to its first await
HandlerPrologue(f, key) ==
    IF f.event.json = "malformed" THEN handlerCatch(f, MsgJsonSyntax)
    ELSE IF EndsWithLookupByName(EventPath(f.event)) THEN ByNamePrologue(f, key)
    ELSE LookupPrologue(f, key)

\* the steps after performOCR without the test of the normalized name
AfterOCR_NoEmptyCheck(f, o) ==
    LET g == [f EXCEPT !.ocr = o]
        r == performOCR(o)
    IN IF r.threw THEN handlerCatch(g, r.message)
       ELSE IF r.value = Undefined THEN Return(g, NotFoundResp)
       ELSE [g EXCEPT !.pc = "lookup", !.cardName = cleanCardName(r.value)]

\* lines 116-120: the handler from the settling of performOCR's fetch to the
\* call of lookupCard
AfterOCR(f, o) ==
    LET g == [f EXCEPT !.ocr = o]
        r == performOCR(o)
    IN IF r.threw THEN handlerCatch(g, r.message)
       ELSE IF r.value = Undefined THEN Return(g, NotFoundResp)
       ELSE LET cardName == cleanCardName(r.value)
            IN IF cardName = <<>> THEN Return(g, NotFoundResp)
               ELSE [g EXCEPT !.pc = "lookup", !.cardName = cardName]

\* lines 106-107 and 120-121: the handler from the settling of lookupCard's
\* fetch to its return
AfterScryfall(f, o) ==
    LET g == [f EXCEPT !.scry = o]
        r == lookupCard(f.cardName, o)
    IN IF r.threw THEN handlerCatch(g, r.message)
       ELSE IF EndsWithLookupByName(EventPath(f.event))
            THEN Return(g, FoundResp(r.value))
            ELSE Return(g, FoundDetectedResp(r.value, f.cardName))

\* a rate limiter that waits two floor intervals
CallLookupCard_DoubleWait(h, f) ==
    LET now == clock
        elapsed == now - lastScryfallCall
    IN IF elapsed < SCRYFALL_RATE_LIMIT_MS
       THEN /\ hs' = [hs EXCEPT ![h] =
                        [f EXCEPT !.pc = "rl_wait",
                                  !.wakeAt = now + 2 * SCRYFALL_RATE_LIMIT_MS]]
            /\ UNCHANGED <<lastScryfallCall, scryfallLog>>
       ELSE /\ lastScryfallCall' = clock
            /\ scryfallLog' = Append(scryfallLog, clock)
            /\ hs' = [hs EXCEPT ![h] =
                        [f EXCEPT !.pc = "scry_wait", !.scryRequests = @ + 1]]

\* rateLimitScryfall entered at `clock`, then lookupCard's fetch. Nothing else
\* runs between the end of the wait and the fetch.
CallLookupCard(h, f) ==
    LET now == clock
        elapsed == now - lastScryfallCall
    IN IF elapsed < SCRYFALL_RATE_LIMIT_MS
       THEN /\ hs' = [hs EXCEPT ![h] =
                        [f EXCEPT !.pc = "rl_wait",
                                  !.wakeAt = now + (SCRYFALL_RATE_LIMIT_MS - elapsed)]]
            /\ UNCHANGED <<lastScryfallCall, scryfallLog>>
       ELSE /\ lastScryfallCall' = clock
            /\ scryfallLog' = Append(scryfallLog, clock)
            /\ hs' = [hs EXCEPT ![h] =
                        [f EXCEPT !.pc = "scry_wait", !.scryRequests = @ + 1]]

\* the frame f that a step of invocation h ends in
Proceed(h, f) ==
    IF f.pc = "lookup"
    THEN CallLookupCard(h, f)
    ELSE /\ hs' = [hs EXCEPT ![h] = f]
         /\ UNCHANGED <<lastScryfallCall, scryfallLog>>

(***************************************************************************)
(* The Lambda process: concurrent handler invocations, the clock and the   *)
(* rate limiter                                                            *)
(***************************************************************************)
\* handler invocations of one process
MaxInvocations == 2

\* clock ticks of one run, each as long as the rate limiter's floor
MaxTicks == 1

\* Date.now() when the module is loaded (lastScryfallCall = 0 lies far back)
ProcessStart == 1000

\* the invocations of the run at hand
Invocations == DOMAIN hs

PngSignature == <<137, 80, 78, 71>>

\* a capture of the expected size, as text
ValidPng == Base64Encode(PngHeader(PngSignature, <<0, 0, 0, 250>>, <<0, 0, 0, 120>>))

\* a capture taken at the right edge of the viewport: narrower than expected
WrongSizePng == Base64Encode(PngHeader(PngSignature, <<0, 0, 0, 180>>, <<0, 0, 0, 120>>))

Bolt == <<"B", "o", "l", "t">>

LookupEvents ==
    { [NoEvent EXCEPT !.path = <<"lookup">>, !.json = j, !.image = i] :
        j \in { "object" },
        i \in { Str(ValidPng), Str(DataUrlPrefix \o ValidPng), Str(WrongSizePng),
                Str(NotValidBase64), Str(<<>>), NoValue, Num } }
    \cup { [NoEvent EXCEPT !.path = <<"lookup">>, !.json = j] :
             j \in { "absent", "malformed", "null" } }

ByNameEvents ==
    { [NoEvent EXCEPT !.path = <<"prod", "lookup-by-name">>, !.json = "object",
                      !.name = n] :
        n \in { Str(Bolt), Str(<<" ", "B", "o", "!", "l", "t", "\t">>),
                Str(<<"!", "?">>), NoValue, Num } }
    \cup { [NoEvent EXCEPT !.httpPath = <<"lookup-by-name">>, !.json = "null"] }

Events == LookupEvents \cup ByNameEvents

OcrOutcomes ==
    { OcrReject, OcrNoCandidates, OcrBadJson,
      OcrError(401, <<"denied">>), OcrError(429, <<"quota">>),
      OcrError(500, <<"internal", "error">>),
      OcrError(404, <<"model", "not", "found">>),
      OcrParts(<<Bolt>>), OcrParts(<<NONE>>), OcrParts(<< <<"!", "?">> >>) }

SingleFaced ==
    [name |-> "Lightning Bolt", set |-> "lea", set_name |-> "Alpha",
     type_line |-> "Instant", rarity |-> "common",
     oracle_text |-> "Deals 3 damage.", mana_cost |-> "{R}",
     image_uris |-> [present |-> TRUE, normal |-> TopUrls.normal, large |-> TopUrls.large],
     has_card_faces |-> FALSE, card_faces |-> <<>>]

Transform ==
    [name |-> "Delver of Secrets", set |-> "isd", set_name |-> "Innistrad",
     type_line |-> "Creature", rarity |-> "common",
     oracle_text |-> Null, mana_cost |-> Null,
     image_uris |-> NoImageUris, has_card_faces |-> TRUE,
     card_faces |->
       << [present |-> TRUE, oracle_text |-> "Face text.", mana_cost |-> "{1}{G}",
           image_uris |-> [present |-> TRUE, normal |-> FaceUrls(1).normal,
                           large |-> FaceUrls(1).large]],
          [present |-> TRUE, oracle_text |-> "Face text.", mana_cost |-> "{1}{G}",
           image_uris |-> [present |-> TRUE, normal |-> FaceUrls(2).normal,
                           large |-> FaceUrls(2).large]] >>]

\* a record without any image data
Imageless == [SingleFaced EXCEPT !.image_uris = NoImageUris]

ScryOutcomes ==
    { ScryReject, ScryStatus(404), ScryStatus(500), ScryBadJson,
      ScryRecord(SingleFaced), ScryRecord(Transform), ScryRecord(Imageless) }

\* concurrent lookupCard calls of the rate limiter's run
MaxCalls == 3

\* clock ticks of the rate limiter's run
MaxRateTicks == 3

\* milliseconds per clock tick of the rate limiter's run
TickMs == 50

\* name lookups: every one of them reaches lookupCard
RateEvents ==
    { [NoEvent EXCEPT !.path = <<"prod", "lookup-by-name">>, !.json = "object",
                      !.name = Str(Bolt)] }

RateOutcomes == { ScryStatus(404), ScryRecord(SingleFaced) }

BackendIdle ==
    /\ clock = ProcessStart
    /\ lastScryfallCall = 0
    /\ apiKey = TRUE
    /\ hs = <<>>
    /\ scryfallLog = <<>>

\* a freshly loaded module that will see n invocations
BackendStart(n) ==
    /\ clock = ProcessStart
    /\ lastScryfallCall = 0
    /\ apiKey \in BOOLEAN
    /\ hs = [h \in 1..n |-> IdleFrame]
    /\ scryfallLog = <<>>

\* the runtime calls handler(event)
Invoke(h, event) ==
    /\ hs[h].pc = "idle"
    /\ \A g \in 1..(h - 1) : hs[g].pc # "idle"
    /\ Proceed(h, HandlerPrologue([IdleFrame EXCEPT !.event = event], apiKey))
    /\ UNCHANGED <<clock, apiKey, notBe>>

\* performOCR's fetch settles
OcrSettles(h, o) ==
    /\ hs[h].pc = "ocr_wait"
    /\ Proceed(h, AfterOCR(hs[h], o))
    /\ UNCHANGED <<clock, apiKey, notBe>>

\* the timer set by rateLimitScryfall fires, not before its delay has passed
TimerFires(h) ==
    /\ hs[h].pc = "rl_wait"
    /\ clock >= hs[h].wakeAt
    /\ lastScryfallCall' = clock
    /\ scryfallLog' = Append(scryfallLog, clock)
    /\ hs' = [hs EXCEPT ![h].pc = "scry_wait", ![h].wakeAt = 0,
                         ![h].scryRequests = @ + 1]
    /\ UNCHANGED <<clock, apiKey, notBe>>

\* a settling that puts the timestamp back to its initial value when the
\* card-database call failed
ScryfallSettles_ResetOnFailure(h, o) ==
    /\ hs[h].pc = "scry_wait"
    /\ hs' = [hs EXCEPT ![h] = AfterScryfall(hs[h], o)]
    /\ lastScryfallCall' = IF lookupCard(hs[h].cardName, o).threw THEN 0
                           ELSE lastScryfallCall
    /\ UNCHANGED <<clock, scryfallLog, apiKey, notBe>>

\* lookupCard's fetch settles
ScryfallSettles(h, o) ==
    /\ hs[h].pc = "scry_wait"
    /\ hs' = [hs EXCEPT ![h] = AfterScryfall(hs[h], o)]
    /\ UNCHANGED <<clock, lastScryfallCall, scryfallLog, apiKey, notBe>>

\* time passes: ms milliseconds, at most n times
Tick(ms, n) ==
    /\ clock + ms <= ProcessStart + n * ms
    /\ clock' = clock + ms
    /\ UNCHANGED <<lastScryfallCall, apiKey, hs, scryfallLog, notBe>>

\* time passes: ms milliseconds, n times at will and further for as long as
\* a timer of the rate limiter is pending
TimePasses(ms, n) ==
    /\ \/ clock + ms <= ProcessStart + n * ms
       \/ \E h \in Invocations : hs[h].pc = "rl_wait" /\ hs[h].wakeAt > clock
    /\ clock' = clock + ms
    /\ UNCHANGED <<lastScryfallCall, apiKey, hs, scryfallLog, notBe>>

\* name lookups and a region lookup with a valid image
LiveEvents ==
    RateEvents
        \cup { [NoEvent EXCEPT !.path = <<"lookup">>, !.json = "object",
                               !.image = Str(ValidPng)] }

LiveOcrOutcomes == { OcrParts(<<Bolt>>), OcrReject }

(***************************************************************************)
(* background.js: the service worker's answer to a lookup message          *)
(***************************************************************************)
\* what the worker's fetch settles with: a rejection or an HTTP response
FetchRejected == [kind |-> "reject", resp |-> NoResp]

HttpResponse(resp) == [kind |-> "response", resp |-> resp]

MsgLookupFailed == <<"Lookup", "failed">>

NoReply == [success |-> FALSE, found |-> "absent", card |-> NoCard,
            detectedName |-> Undefined, error |-> <<>>]

\* a worker that does not test response.ok: { success: true, ...data } for
\* every answer
WorkerReply_NoOkTest(http) ==
    IF http.kind = "reject" THEN [NoReply EXCEPT !.error = MsgFetchFailed]
    ELSE [success |-> TRUE, found |-> http.resp.body.found,
          card |-> http.resp.body.card,
          detectedName |-> http.resp.body.detectedName,
          error |-> http.resp.body.error]

\* lookupCardFromImage / lookupCardByName followed by the listener's
\* sendResponse: { success: true, ...data } or { success: false, error }
WorkerReply(http) ==
    IF http.kind = "reject" THEN [NoReply EXCEPT !.error = MsgFetchFailed]
    ELSE IF ~Ok(http.resp.statusCode) THEN [NoReply EXCEPT !.error = MsgLookupFailed]
    ELSE [success |-> TRUE, found |-> http.resp.body.found,
          card |-> http.resp.body.card,
          detectedName |-> http.resp.body.detectedName,
          error |-> http.resp.body.error]

(***************************************************************************)
(* content.js: what the callbacks of a lookup render                       *)
(***************************************************************************)
MsgNoCardDetected == <<"No", "card", "detected">>

MsgUnableToDetect == <<"Unable", "to", "detect", "card">>

\* `Error: ${chrome.runtime.lastError.message}`
MsgLastError == <<"Error", ":", "port", "closed">>

NoView == [show |-> "none", card |-> NoCard, text |-> <<>>, message |-> <<>>]

CardView(card) == [NoView EXCEPT !.show = "card", !.card = card]

\* showFallbackInput(detectedText, errorMessage)
FallbackView(text, message) ==
    [NoView EXCEPT !.show = "fallback", !.text = text, !.message = message]

\* detectedName || ''
TextOrEmpty(t) == IF t = Undefined THEN <<>> ELSE t

\* a then callback that shows every found card, with or without an image
RegionLookupView_AnyCard(reply, lastError) ==
    IF lastError \/ ~reply.success
    THEN FallbackView(<<>>, MsgUnableToDetect)
    ELSE IF reply.found = "true" /\ reply.card # NoCard
         THEN CardView(reply.card)
         ELSE FallbackView(TextOrEmpty(reply.detectedName), MsgNoCardDetected)

\* performCardLookup's callback, then handleCardLookup's then/catch
RegionLookupView(reply, lastError) ==
    IF lastError \/ ~reply.success
    THEN FallbackView(<<>>, MsgUnableToDetect)
    ELSE IF reply.found = "true" /\ reply.card # NoCard /\ reply.card.imageUrl # Null
         THEN CardView(reply.card)
         ELSE FallbackView(TextOrEmpty(reply.detectedName), MsgNoCardDetected)

\* the callback of handleCardLookupWithName
NameLookupView(cardName, reply, lastError) ==
    IF lastError THEN FallbackView(cardName, MsgLastError)
    ELSE IF reply.success /\ reply.found = "true" /\ reply.card # NoCard
         THEN CardView(reply.card)
         ELSE FallbackView(cardName, MsgCardNotFound(cardName))

(***************************************************************************)
(* content.js: the overlay elements of the page                            *)
(***************************************************************************)
\* the ids that dismissOverlay looks up, in the order it removes them
OverlayIds ==
    <<"mtg-backdrop", "mtg-loading-spinner", "mtg-card-overlay",
      "mtg-text-input-modal", "mtg-debug-overlay">>

\* an element appended to document.body by the callback chain of lookup `run`
Element(id, run, view) == [id |-> id, run |-> run, view |-> view]

\* document.getElementById(id): the position of the first element with that
\* id, 0 for null
GetElementById(d, id) ==
    IF \E i \in 1..Len(d) : d[i].id = id
    THEN CHOOSE i \in 1..Len(d) :
            d[i].id = id /\ \A j \in 1..(i - 1) : d[j].id # id
    ELSE 0

\* if (element) element.remove()
Remove(d, i) ==
    IF i = 0 THEN d ELSE SubSeq(d, 1, i - 1) \o SubSeq(d, i + 1, Len(d))

RECURSIVE RemoveEach(_, _)
RemoveEach(d, ids) ==
    IF ids = <<>> THEN d
    ELSE RemoveEach(Remove(d, GetElementById(d, Head(ids))), Tail(ids))

\* a dismissOverlay that only knows the loading spinner
dismissOverlay_SpinnerOnly(d) ==
    Remove(d, GetElementById(d, "mtg-loading-spinner"))

dismissOverlay(d) == RemoveEach(d, OverlayIds)

MsgLookingUp == <<"Looking", "up", "card">>

MsgCallingBackend == <<"Calling", "backend">>

MsgCaptureFailed == <<"Failed", "to", "capture", "region">>

MsgNoTextDetected == <<"(no", "text", "detected)">>

MsgBackendError(message) == <<"Backend", "error", ":">> \o message

MsgUnknownError == <<"Unknown", "error">>

\* customMessage || `Searching for: ${cardName}`
SpinnerView(cardName, customMessage) ==
    [NoView EXCEPT !.show = "spinner", !.text = cardName,
                   !.message = IF customMessage # <<>> THEN customMessage
                               ELSE <<"Searching", "for", ":">>]

\* the arguments of showDebugOverlay that depend on the lookup: the error
\* message, the detected text and the card named in it
DebugView(errorMessage, detectedText, card) ==
    [NoView EXCEPT !.show = "debug", !.message = errorMessage,
                   !.text = detectedText, !.card = card]

\* a spinner function that leaves the page as it is
showLoadingSpinner_Nothing(d, run, cardName, customMessage) == d

showLoadingSpinner(d, run, cardName, customMessage) ==
    dismissOverlay(d)
        \o <<Element("mtg-backdrop", run, NoView),
             Element("mtg-loading-spinner", run,
                     SpinnerView(cardName, customMessage))>>

showCardOverlay(d, run, cardData) ==
    dismissOverlay(d)
        \o <<Element("mtg-backdrop", run, NoView),
             Element("mtg-card-overlay", run, CardView(cardData))>>

showFallbackInput(d, run, detectedText, errorMessage) ==
    dismissOverlay(d)
        \o <<Element("mtg-backdrop", run, NoView),
             Element("mtg-text-input-modal", run,
                     FallbackView(detectedText, errorMessage))>>

showDebugOverlay(d, run, view) ==
    dismissOverlay(d)
        \o <<Element("mtg-backdrop", run, NoView),
             Element("mtg-debug-overlay", run, view)>>

\* the show function that a callback's outcome selects
Render(d, run, view) ==
    IF view.show = "card" THEN showCardOverlay(d, run, view.card)
    ELSE IF view.show = "fallback"
    THEN showFallbackInput(d, run, view.text, view.message)
    ELSE showDebugOverlay(d, run, view)

\* the callback of handleDebugMode
DebugLookupView(reply, lastError) ==
    IF lastError THEN DebugView(MsgLastError, <<>>, NoCard)
    ELSE IF reply.success
    THEN DebugView(<<>>,
                   IF reply.detectedName \in { Undefined, <<>> }
                   THEN MsgNoTextDetected ELSE reply.detectedName,
                   IF reply.found = "true" /\ reply.card # NoCard
                   THEN reply.card ELSE NoCard)
    ELSE DebugView(MsgBackendError(IF reply.error # <<>> THEN reply.error
                                   ELSE MsgUnknownError), <<>>, NoCard)

(***************************************************************************)
(* content.js and background.js: lookup runs of one page                   *)
(*                                                                         *)
(* stage of a run:                                                         *)
(*     "none"      not started                                             *)
(*     "rejected"  performCardLookup threw, the catch callback is queued   *)
(*     "failed"    the capture failed, no message was sent                 *)
(*     "fetching"  the message is with the worker, whose fetch is pending  *)
(*     "replying"  the worker called sendResponse                          *)
(*     "done"      the callback of sendMessage ran                         *)
(* `dismissed` is history: the user dismissed the run's overlay while the  *)
(* run was in flight.                                                      *)
(***************************************************************************)
\* lookup runs of one page
MaxTriggers == 2

NoHttp == [kind |-> "none", resp |-> NoResp]

NoCanvas == [present |-> FALSE, width |-> 0, height |-> 0]

Canvas(w, h) == [present |-> TRUE, width |-> w, height |-> h]

NoRun ==
    [kind |-> "none", stage |-> "none", imageData |-> <<>>, cardName |-> <<>>,
     http |-> NoHttp, frame |-> IdleFrame, lastError |-> FALSE,
     dismissed |-> FALSE]

\* the four bytes of a 32-bit size, most significant first
BigEndian4(n) ==
    <<(n \div 65536) \div 256, (n \div 65536) % 256, (n % 65536) \div 256, n % 256>>

\* const regionWidth = 125, const regionHeight = 60
RegionWidth == 125

RegionHeight == 60

\* const scale = 2
CaptureScale == 2

\* Math.max(0, cursor - region / 2). start and end are kept doubled, since
\* region / 2 can be a half pixel.
RegionStart2(cursor, region) == Max(0, 2 * cursor - region)

\* an end that is not clamped to the viewport
RegionEnd2_Unclamped(cursor, region, inner) ==
    RegionStart2(cursor, region) + 2 * region

\* Math.min(inner, start + region), doubled
RegionEnd2(cursor, region, inner) ==
    Min(2 * inner, RegionStart2(cursor, region) + 2 * region)

\* lines 178-189 along one axis: (end - start) * scale
CaptureExtent(cursor, region, inner) ==
    LET start2 == RegionStart2(cursor, region)
        end2 == RegionEnd2(cursor, region, inner)
    IN ((end2 - start2) * CaptureScale) \div 2

\* the canvas that captureRegionAroundCursor returns when nothing throws
captureRegionAroundCursor(cursorX, cursorY, regionWidth, regionHeight, innerWidth, innerHeight) ==
    Canvas(CaptureExtent(cursorX, regionWidth, innerWidth),
           CaptureExtent(cursorY, regionHeight, innerHeight))

\* canvas.toDataURL('image/png'): the data URL of a PNG file of the canvas's
\* size
toDataURL(canvas) ==
    DataUrlPrefix
        \o Base64Encode(PngHeader(PngSignature,
                                  BigEndian4(canvas.width),
                                  BigEndian4(canvas.height)))

\* dataUrl.split(',') and the choice of parts[1]
dataUrlToBase64(dataUrl) ==
    IF \E i \in 1..Len(dataUrl) : dataUrl[i] = Comma
    THEN LET i == CHOOSE k \in 1..Len(dataUrl) :
                    dataUrl[k] = Comma /\ \A j \in 1..(k - 1) : dataUrl[j] # Comma
             rest == SubSeq(dataUrl, i + 1, Len(dataUrl))
             ends == { k \in 1..Len(rest) : rest[k] = Comma }
                        \cup { Len(rest) + 1 }
             j == CHOOSE k \in ends : \A m \in ends : k <= m
         IN SubSeq(rest, 1, j - 1)
    ELSE dataUrl

\* the event that the worker's fetch delivers to the handler
WorkerRequest(run) ==
    IF run.kind = "name"
    THEN [NoEvent EXCEPT !.path = <<"prod", "lookup-by-name">>,
                         !.json = "object", !.name = Str(run.cardName)]
    ELSE [NoEvent EXCEPT !.path = <<"prod", "lookup">>, !.json = "object",
                         !.image = Str(dataUrlToBase64(run.imageData))]

\* the frame in which the handler returns when its OCR call settles with ocr
\* and its card-database call with scry
HandlerRun(event, key, ocr, scry) ==
    LET f1 == HandlerPrologue([IdleFrame EXCEPT !.event = event], key)
        f2 == IF f1.pc = "ocr_wait" THEN AfterOCR(f1, ocr) ELSE f1
    IN IF f2.pc = "lookup"
       THEN AfterScryfall([f2 EXCEPT !.scryRequests = @ + 1], scry)
       ELSE f2

InFlight(run) == run.stage \in { "fetching", "replying" }

\* the state of the page that the handlers of content.js read and write
Page(d, rs, n) == [dom |-> d, runs |-> rs, triggers |-> n]

\* handleCardLookup up to the return of performCardLookup's promise
handleCardLookup(u, canvas) ==
    LET r == u.triggers + 1
        d == showLoadingSpinner(u.dom, r, <<>>, MsgLookingUp)
    IN IF ~canvas.present
       THEN Page(d, [u.runs EXCEPT ![r] =
                        [NoRun EXCEPT !.kind = "region", !.stage = "rejected"]], r)
       ELSE Page(d, [u.runs EXCEPT ![r] =
                        [NoRun EXCEPT !.kind = "region", !.stage = "fetching",
                                      !.imageData = toDataURL(canvas)]], r)

\* the catch callback of handleCardLookup for a capture that failed, run when
\* the keydown listener has returned
CaptureRejected(u) ==
    LET rejected == { r \in DOMAIN u.runs : u.runs[r].stage = "rejected" }
    IN IF rejected = {} THEN u
       ELSE LET r == CHOOSE x \in rejected : TRUE
            IN Page(showFallbackInput(dismissOverlay(u.dom), r, <<>>,
                                      MsgUnableToDetect),
                    [u.runs EXCEPT ![r].stage = "failed"], u.triggers)

handleDebugMode(u, canvas) ==
    LET r == u.triggers + 1
    IN IF ~canvas.present
       THEN Page(showDebugOverlay(u.dom, r,
                                  DebugView(MsgCaptureFailed, <<>>, NoCard)),
                 [u.runs EXCEPT ![r] =
                     [NoRun EXCEPT !.kind = "debug", !.stage = "failed"]], r)
       ELSE Page(showDebugOverlay(u.dom, r,
                                  DebugView(<<>>, MsgCallingBackend, NoCard)),
                 [u.runs EXCEPT ![r] =
                     [NoRun EXCEPT !.kind = "debug", !.stage = "fetching",
                                   !.imageData = toDataURL(canvas)]], r)

handleCardLookupWithName(u, cardName) ==
    LET r == u.triggers + 1
    IN Page(showLoadingSpinner(u.dom, r, cardName, <<>>),
            [u.runs EXCEPT ![r] =
                [NoRun EXCEPT !.kind = "name", !.stage = "fetching",
                              !.cardName = cardName]], r)

\* a dismissal that also drops the callbacks of the lookups in flight
UserDismiss_Cancels(u) ==
    Page(dismissOverlay(u.dom),
         [r \in DOMAIN u.runs |->
            IF InFlight(u.runs[r]) THEN [u.runs[r] EXCEPT !.stage = "done"]
            ELSE u.runs[r]],
         u.triggers)

\* dismissOverlay called by the user: Escape, a click on the backdrop or on a
\* close button
UserDismiss(u) ==
    Page(dismissOverlay(u.dom),
         [r \in DOMAIN u.runs |->
            IF InFlight(u.runs[r]) /\ \E i \in 1..Len(u.dom) : u.dom[i].run = r
            THEN [u.runs[r] EXCEPT !.dismissed = TRUE]
            ELSE u.runs[r]],
         u.triggers)

\* the values of event.key for the backtick key, without and with Shift
Backtick == "backtick"

Tilde == "tilde"

\* the keydown listener, with the catch callback that its return lets run
keydown(u, event, canvas) ==
    IF event.key = "Escape" THEN UserDismiss(u)
    ELSE LET typing == event.target \in { "INPUT", "TEXTAREA" }
             debugKey == \/ event.key = Tilde
                         \/ (event.shiftKey /\ event.key = Backtick)
                         \/ (event.shiftKey /\ event.code = "Backquote")
             u1 == IF event.key = Backtick /\ ~typing
                   THEN handleCardLookup(u, canvas) ELSE u
             u2 == IF event.key = Backtick /\ typing THEN u
                   ELSE IF debugKey /\ ~typing THEN handleDebugMode(u1, canvas)
                   ELSE u1
         IN CaptureRejected(u2)

\* the number of lookups that the listener starts for an event
TriggersOf(event) ==
    IF event.key = "Escape" \/ event.target \in { "INPUT", "TEXTAREA" } THEN 0
    ELSE (IF event.key = Backtick THEN 1 ELSE 0)
         + (IF \/ event.key = Tilde
               \/ (event.shiftKey /\ event.key = Backtick)
               \/ (event.shiftKey /\ event.code = "Backquote")
            THEN 1 ELSE 0)

\* the click listener of the fallback modal's submit button
submit(u, value) ==
    LET cardName == Trim(value)
    IN IF cardName = <<>> THEN u
       ELSE handleCardLookupWithName(
                Page(dismissOverlay(u.dom), u.runs, u.triggers), cardName)

\* a callback that sends the message again when the lookup failed
sendMessageCallback_Retry(u, r, reply, lastError) ==
    IF lastError \/ ~reply.success
    THEN Page(u.dom, [u.runs EXCEPT ![r].stage = "fetching"], u.triggers)
    ELSE Page(u.dom, [u.runs EXCEPT ![r].stage = "done"], u.triggers)

\* the callback of chrome.runtime.sendMessage for run r, with the then/catch
\* callbacks that it resolves
sendMessageCallback(u, r, reply, lastError) ==
    LET run == u.runs[r]
        d == IF run.kind = "region"
             THEN Render(dismissOverlay(u.dom), r,
                         RegionLookupView(reply, lastError))
             ELSE IF run.kind = "debug"
             THEN showDebugOverlay(u.dom, r, DebugLookupView(reply, lastError))
             ELSE Render(u.dom, r, NameLookupView(run.cardName, reply, lastError))
    IN Page(d, [u.runs EXCEPT ![r].stage = "done", ![r].lastError = lastError],
            u.triggers)

(***************************************************************************)
(* The page: key presses, clicks, and the settling of the lookups          *)
(***************************************************************************)
Runs == DOMAIN runs

\* the keyboard events of the page: Escape, backtick, tilde, and a letter
KeyEvents ==
    { [key |-> k, shiftKey |-> s, target |-> t,
       code |-> IF k \in { Backtick, Tilde } THEN "Backquote"
                ELSE IF k = "Escape" THEN "Escape" ELSE "KeyA"] :
        k \in { "Escape", Backtick, Tilde, "a" }, s \in BOOLEAN,
        t \in { "BODY", "INPUT" } }

\* what captureRegionAroundCursor returns in a 300x200 viewport for a cursor
\* in the middle and for one near the right edge, or null
Canvases ==
    { captureRegionAroundCursor(x, 30, RegionWidth, RegionHeight, 300, 200) :
        x \in { 150, 275 } }
    \cup { NoCanvas }

\* what the user leaves in the input of the fallback modal
TypedNames ==
    { Bolt, <<" ", "B", "o", "l", "t", " ">>, <<" ">>, <<"!", "?">> }

UiOcrOutcomes ==
    { OcrParts(<<Bolt>>), OcrParts(<<NONE>>),
      OcrError(500, <<"internal", "error">>) }

UiScryOutcomes ==
    { ScryStatus(404), ScryStatus(500), ScryRecord(SingleFaced),
      ScryRecord(Transform), ScryRecord(Imageless) }

\* a freshly loaded page that will see n lookups
UiStart(n) ==
    /\ dom = <<>>
    /\ runs = [r \in 1..n |-> NoRun]
    /\ triggers = 0

Apply(u) ==
    /\ dom' = u.dom
    /\ runs' = u.runs
    /\ triggers' = u.triggers
    /\ UNCHANGED notUi

\* a key goes down; an input can only be the target while the modal is shown
KeyDown(event, canvas) ==
    /\ event.target = "INPUT" => GetElementById(dom, "mtg-text-input-modal") # 0
    /\ triggers + TriggersOf(event) <= Len(runs)
    /\ Apply(keydown(Page(dom, runs, triggers), event, canvas))

\* the user clicks Search or presses Enter in the fallback modal
Submit(value) ==
    /\ GetElementById(dom, "mtg-text-input-modal") # 0
    /\ triggers < Len(runs)
    /\ Apply(submit(Page(dom, runs, triggers), value))

ClickBackdrop ==
    /\ GetElementById(dom, "mtg-backdrop") # 0
    /\ Apply(UserDismiss(Page(dom, runs, triggers)))

\* the close button of the card overlay or of the debug overlay
ClickClose ==
    /\ \/ GetElementById(dom, "mtg-card-overlay") # 0
       \/ GetElementById(dom, "mtg-debug-overlay") # 0
    /\ Apply(UserDismiss(Page(dom, runs, triggers)))

\* the worker's fetch resolves with the handler's response
FetchSettles(r, ocr, scry) ==
    /\ runs[r].stage = "fetching"
    /\ LET f == HandlerRun(WorkerRequest(runs[r]), apiKey, ocr, scry)
       IN runs' = [runs EXCEPT ![r].stage = "replying", ![r].frame = f,
                                ![r].http = HttpResponse(f.resp)]
    /\ UNCHANGED <<dom, triggers, notUi>>

\* the worker's fetch rejects
FetchRejects(r) ==
    /\ runs[r].stage = "fetching"
    /\ runs' = [runs EXCEPT ![r].stage = "replying", ![r].http = FetchRejected]
    /\ UNCHANGED <<dom, triggers, notUi>>

\* the worker's sendResponse reaches the content script
Deliver(r) ==
    /\ runs[r].stage = "replying"
    /\ Apply(sendMessageCallback(Page(dom, runs, triggers), r,
                                 WorkerReply(runs[r].http), FALSE))

\* the worker goes away without answering: the callback runs with lastError
PortCloses(r) ==
    /\ runs[r].stage = "fetching"
    /\ Apply(sendMessageCallback(Page(dom, runs, triggers), r, NoReply, TRUE))

(***************************************************************************)
(* Capture harness: captureRegionAroundCursor over viewports and cursors   *)
(***************************************************************************)
\* how much wider and higher than the capture region the viewports get
ViewportSlack == 1

Viewports ==
    { <<RegionWidth + i, RegionHeight + j>> : i, j \in 0..ViewportSlack }

CaptureStart ==
    /\ cpViewport \in Viewports
    /\ cpCursor \in { <<x, y>> : x \in 0..(RegionWidth + ViewportSlack - 1),
                                  y \in 0..(RegionHeight + ViewportSlack - 1) }
    /\ cpCursor[1] < cpViewport[1]
    /\ cpCursor[2] < cpViewport[2]
    /\ cpCanvas = NoCanvas
    /\ cpPc = "start"

\* one call; `thrown` is an exception inside the try block, which makes the
\* function return null
Capture(thrown) ==
    /\ cpPc = "start"
    /\ cpCanvas' = IF thrown THEN NoCanvas
                   ELSE captureRegionAroundCursor(cpCursor[1], cpCursor[2],
                                                  RegionWidth, RegionHeight,
                                                  cpViewport[1], cpViewport[2])
    /\ cpPc' = "done"
    /\ UNCHANGED <<cpCursor, cpViewport, notCp>>

(***************************************************************************)
(* OCR harness: performOCR over the answers of the OCR service             *)
(***************************************************************************)
\* text parts in the first candidate of an answer
MaxParts == 2

\* the parts of an answer: one without text, a name, the sentinel, a blank
\* and a name with blanks around it
OcrFragments == { <<>>, Bolt, NONE, <<" ">>, <<" ", "B", " ">> }

OcrBodies == { <<>>, <<"quota">> }

\* the statuses for which resp.ok is false
OcrErrorStatuses == { 301, 400, 401, 403, 404, 429, 500, 503 }

OcrAnswers ==
    { OcrReject, OcrNoCandidates, OcrBadJson }
        \cup { OcrError(s, b) : s \in OcrErrorStatuses, b \in OcrBodies }
        \cup { OcrParts(ps) : ps \in SeqsUpTo(OcrFragments, MaxParts) }

OcrIdle ==
    /\ poOutcome = NoOcr
    /\ poResult = Returned(Undefined)
    /\ poRequests = 0
    /\ poPc = "idle"

\* performOCR(base64Image, apiKey) is called
OcrStart ==
    /\ poOutcome \in OcrAnswers
    /\ poResult = Returned(Undefined)
    /\ poRequests = 0
    /\ poPc = "start"

\* await fetch(...): the request goes out
OcrFetch ==
    /\ poPc = "start"
    /\ poRequests' = poRequests + 1
    /\ poPc' = "wait"
    /\ UNCHANGED <<poOutcome, poResult, notPo>>

\* the fetch settles and performOCR returns or throws
OcrReturns ==
    /\ poPc = "wait"
    /\ poResult' = performOCR(poOutcome)
    /\ poPc' = "done"
    /\ UNCHANGED <<poOutcome, poRequests, notPo>>

(***************************************************************************)
(* Specifications                                                          *)
(***************************************************************************)
InitClean == CleanStart /\ ValidateIdle /\ CardIdle /\ BackendIdle /\ UiIdle /\ CaptureIdle /\ OcrIdle

NextClean == Clean \/ Reclean

SpecClean == InitClean /\ [][NextClean]_vars

InitValidate == ValidateStart /\ CleanIdle /\ CardIdle /\ BackendIdle /\ UiIdle /\ CaptureIdle /\ OcrIdle

NextValidate == Validate

SpecValidate == InitValidate /\ [][NextValidate]_vars

InitCard == CardStart /\ CleanIdle /\ ValidateIdle /\ BackendIdle /\ UiIdle /\ CaptureIdle /\ OcrIdle

NextCard == BuildCard

SpecCard == InitCard /\ [][NextCard]_vars

Init == BackendStart(MaxInvocations) /\ CleanIdle /\ ValidateIdle /\ CardIdle /\ UiIdle /\ CaptureIdle /\ OcrIdle

Next ==
    \/ \E h \in Invocations, event \in Events : Invoke(h, event)
    \/ \E h \in Invocations, o \in OcrOutcomes : OcrSettles(h, o)
    \/ \E h \in Invocations : TimerFires(h)
    \/ \E h \in Invocations, o \in ScryOutcomes : ScryfallSettles(h, o)
    \/ Tick(SCRYFALL_RATE_LIMIT_MS, MaxTicks)

Spec == Init /\ [][Next]_vars

\* the rate limiter under concurrent name lookups
InitRate == BackendStart(MaxCalls) /\ CleanIdle /\ ValidateIdle /\ CardIdle /\ UiIdle /\ CaptureIdle /\ OcrIdle

NextRate ==
    \/ \E h \in Invocations, event \in RateEvents : Invoke(h, event)
    \/ \E h \in Invocations : TimerFires(h)
    \/ \E h \in Invocations, o \in RateOutcomes : ScryfallSettles(h, o)
    \/ Tick(TickMs, MaxRateTicks)

SpecRate == InitRate /\ [][NextRate]_vars

\* concurrent invocations whose external calls complete, whose timers fire
\* and for which time passes
NextLive ==
    \/ \E h \in Invocations, event \in LiveEvents : Invoke(h, event)
    \/ \E h \in Invocations, o \in LiveOcrOutcomes : OcrSettles(h, o)
    \/ \E h \in Invocations : TimerFires(h)
    \/ \E h \in Invocations, o \in RateOutcomes : ScryfallSettles(h, o)
    \/ TimePasses(TickMs, MaxRateTicks)

Fairness ==
    /\ WF_vars(TimePasses(TickMs, MaxRateTicks))
    /\ \A h \in 1..MaxCalls :
          /\ WF_vars(\E o \in LiveOcrOutcomes : OcrSettles(h, o))
          /\ WF_vars(TimerFires(h))
          /\ WF_vars(\E o \in RateOutcomes : ScryfallSettles(h, o))

SpecLive == InitRate /\ [][NextLive]_vars /\ Fairness

\* one page: lookups triggered, dismissed and answered in any order
InitUI ==
    /\ UiStart(MaxTriggers)
    /\ CleanIdle /\ ValidateIdle /\ CardIdle /\ BackendIdle /\ CaptureIdle /\ OcrIdle

NextUI ==
    \/ \E event \in KeyEvents, canvas \in Canvases : KeyDown(event, canvas)
    \/ \E value \in TypedNames : Submit(value)
    \/ ClickBackdrop
    \/ ClickClose
    \/ \E r \in Runs, ocr \in UiOcrOutcomes, scry \in UiScryOutcomes :
          FetchSettles(r, ocr, scry)
    \/ \E r \in Runs : FetchRejects(r)
    \/ \E r \in Runs : Deliver(r)
    \/ \E r \in Runs : PortCloses(r)

SpecUI == InitUI /\ [][NextUI]_vars

\* captureRegionAroundCursor for every cursor point of small viewports
InitCapture ==
    /\ CaptureStart
    /\ CleanIdle /\ ValidateIdle /\ CardIdle /\ BackendIdle /\ UiIdle /\ OcrIdle

NextCapture == \E thrown \in BOOLEAN : Capture(thrown)

SpecCapture == InitCapture /\ [][NextCapture]_vars

\* performOCR for every answer of the OCR service
InitOcr ==
    /\ OcrStart
    /\ CleanIdle /\ ValidateIdle /\ CardIdle /\ BackendIdle /\ UiIdle /\ CaptureIdle

NextOcr == OcrFetch \/ OcrReturns

SpecOcr == InitOcr /\ [][NextOcr]_vars

(***************************************************************************)
(* Claims                                                                  *)
(***************************************************************************)

\* C7: for every input string cleanCardName returns at most 50 characters,
\* each an ASCII letter, a digit, the space character, a hyphen or an
\* apostrophe (no tab, newline or other whitespace), and it returns the empty
\* string for empty or missing input.
C7_CleanBoundedAndSafe ==
    ccPc \in { "cleaned", "recleaned" } =>
        /\ Len(ccFirst) <= 50
        /\ \A i \in 1..Len(ccFirst) :
              ccFirst[i] \in Letters \cup Digits \cup { " ", "-", "'" }
        /\ (ccText = Undefined \/ Len(ccText) = 0) => ccFirst = <<>>

\* a tab-separated, punctuated input longer than 50 characters was cleaned
C7_Witness ==
    /\ ccPc = "cleaned"
    /\ Len(ccText) > 50
    /\ \E i \in 1..Len(ccText) : ccText[i] = "\t"
    /\ \E i \in 1..Len(ccText) : ccText[i] = "!"
    /\ Len(ccFirst) = 50

\* C8: cleanCardName is idempotent: cleanCardName(cleanCardName(x)) equals
\* cleanCardName(x) for every input string x.
C8_CleanIdempotent ==
    ccPc = "recleaned" => ccSecond = ccFirst

\* C9: validateImage returns true exactly when the decoded bytes are at least
\* 24 long, begin with the PNG signature bytes 0x89 'P' 'N' 'G' and carry
\* width 250 and height 120 in the big-endian fields at offsets 16 and 20; it
\* returns false for every other payload and never throws.
C9_ValidateExact ==
    viPc = "done" =>
        /\ viResult \in BOOLEAN
        /\ viResult <=>
              /\ viPayload # NonString
              /\ Len(viBytes) >= 24
              /\ SubSeq(viBytes, 1, 4) = <<137, 80, 78, 71>>
              /\ SubSeq(viBytes, 17, 20) = <<0, 0, 0, 250>>
              /\ SubSeq(viBytes, 21, 24) = <<0, 0, 0, 120>>

\* a well-formed 250x120 header was accepted
C9_Witness ==
    /\ viPc = "done"
    /\ viResult = TRUE
    /\ Len(viBytes) = 24
    /\ Junk \in { viPayload[i] : i \in 1..Len(viPayload) }

\* C10 (as stated): the produced CardRecord has a non-null backImageUrl if and
\* only if the record has two faces and the second face carries its own
\* image; a single-faced record never gets the field.
C10_BackImageIffSecondFaceImage ==
    lcPc = "done" =>
        /\ lcResult.backImageUrl # Null <=>
              /\ lcRecord.has_card_faces
              /\ Len(lcRecord.card_faces) >= 2
              /\ lcRecord.card_faces[2].image_uris.present
        /\ ~lcRecord.has_card_faces => ~lcResult.hasBackImageUrl

\* C10 (amended): the produced CardRecord has a non-null backImageUrl if and
\* only if the record has faces, has no top-level image data, and its second
\* face carries its own image in the normal or the large size; a record
\* without faces never gets the field.
C10_BackImageIffDoubleFaced ==
    lcPc = "done" =>
        /\ lcResult.backImageUrl # Null <=>
              /\ lcRecord.has_card_faces
              /\ ~lcRecord.image_uris.present
              /\ Len(lcRecord.card_faces) >= 2
              /\ lcRecord.card_faces[2].image_uris.present
              /\ \/ lcRecord.card_faces[2].image_uris.normal # Null
                 \/ lcRecord.card_faces[2].image_uris.large # Null
        /\ ~lcRecord.has_card_faces => ~lcResult.hasBackImageUrl

\* a transform card (faces with their own images, no top-level image) got its
\* back face, taken from the large size because the normal one is missing
C10_Witness ==
    /\ lcPc = "done"
    /\ lcRecord.has_card_faces
    /\ Len(lcRecord.card_faces) = 2
    /\ ~lcRecord.image_uris.present
    /\ lcRecord.card_faces[2].image_uris.normal = Null
    /\ lcResult.backImageUrl = "back/large.jpg"
    /\ lcResult.imageUrl = "front/normal.jpg"

\* C1: over any interleaving of lookupCard invocations, no two requests to the
\* card database are issued less than 100 ms apart.
C1_ScryfallSpacing ==
    \A i, j \in 1..Len(scryfallLog) :
        i < j => scryfallLog[j] - scryfallLog[i] >= 100

\* the event of a frame is a /lookup request whose image fails validateImage
InvalidImageRun(f) ==
    /\ f.pc # "idle"
    /\ ~EndsWithLookupByName(EventPath(f.event))
    /\ f.event.json = "object"
    /\ f.event.image.type = "string"
    /\ f.event.image.text # <<>>
    /\ ~validateImage(StripDataUrl(f.event.image.text))

\* C2: in the /lookup pipeline the OCR service is never called with a payload
\* that failed image validation: such a run ends with HTTP 400 and an error
\* body, which the extension shows as the fallback input, and it issues no OCR
\* request and no card-database request.
C2_InvalidImageStopsRun ==
    \A h \in Invocations :
        /\ hs[h].ocrRequests > 0 =>
              /\ hs[h].validations > 0
              /\ validateImage(hs[h].base64)
        /\ InvalidImageRun(hs[h]) =>
              /\ hs[h].pc = "returned"
              /\ hs[h].resp.statusCode = 400
              /\ hs[h].resp.body.error # <<>>
              /\ hs[h].resp.body.found = "absent"
              /\ hs[h].ocrRequests = 0
              /\ hs[h].scryRequests = 0
              /\ RegionLookupView(WorkerReply(HttpResponse(hs[h].resp)), FALSE).show
                   = "fallback"

\* a well-formed PNG of the wrong size was rejected while another run's image
\* passed validation and went to the OCR service
C2_Witness ==
    \E h, g \in Invocations :
        /\ hs[h].pc = "returned"
        /\ hs[h].event.image = Str(WrongSizePng)
        /\ hs[h].validations = 1
        /\ hs[h].resp.statusCode = 400
        /\ hs[g].ocrRequests = 1

\* the card database answered the run's request with 404
ScryfallNotFound(f) ==
    f.pc = "returned" /\ f.scry.kind = "response" /\ f.scry.status = 404

\* C5: a 404 of the card database always ends the run as NoMatch, never as an
\* error: the handler returns HTTP 200 with found:false, and the content
\* script shows the fallback input with its no-match message.
C5_NotFoundIsNoMatch ==
    \A h \in Invocations :
        ScryfallNotFound(hs[h]) =>
            /\ hs[h].resp.statusCode = 200
            /\ hs[h].resp.body.found = "false"
            /\ hs[h].resp.body.error = <<>>
            /\ LET reply == WorkerReply(HttpResponse(hs[h].resp))
                   typed == hs[h].event.name.text
               IN IF EndsWithLookupByName(EventPath(hs[h].event))
                  THEN NameLookupView(typed, reply, FALSE)
                         = FallbackView(typed, MsgCardNotFound(typed))
                  ELSE RegionLookupView(reply, FALSE)
                         = FallbackView(<<>>, MsgNoCardDetected)

\* a 404 ended an OCR run and a name run
C5_Witness ==
    \E h, g \in Invocations :
        /\ ScryfallNotFound(hs[h])
        /\ hs[h].ocrRequests = 1
        /\ ScryfallNotFound(hs[g])
        /\ EndsWithLookupByName(EventPath(hs[g].event))

\* the exception that ended the run's OCR call or card-database call, if any
FailureOf(f) ==
    IF f.ocr.kind # "none" /\ performOCR(f.ocr).threw
    THEN performOCR(f.ocr).message
    ELSE IF f.scry.kind # "none" /\ lookupCard(f.cardName, f.scry).threw
    THEN lookupCard(f.cardName, f.scry).message
    ELSE <<>>

\* C6: every pipeline failure other than a card-database 404 (OCR auth
\* rejection, OCR rate limit, any other OCR non-success status whatever its
\* body, card-database non-404 non-success status, transport exception) ends
\* the run as HTTP 500 carrying the failure's message, never as found:false.
C6_FailuresAreErrors ==
    \A h \in Invocations :
        (hs[h].pc = "returned" /\ FailureOf(hs[h]) # <<>> /\ ~ScryfallNotFound(hs[h])) =>
            /\ hs[h].resp.statusCode = 500
            /\ hs[h].resp.body.error = FailureOf(hs[h])
            /\ hs[h].resp.body.found = "absent"

\* C3: when the user dismisses a lookup whose request is in flight, the page
\* is left without overlay elements at once, and when the response of the
\* dismissed lookup arrives its callback renders nothing.
C3_DismissedResponseDropped ==
    [][\A r \in Runs :
          /\ (~runs[r].dismissed /\ runs'[r].dismissed) => dom' = <<>>
          /\ (runs[r].dismissed /\ runs[r].stage = "replying"
                 /\ runs'[r].stage = "done") => dom' = dom]_vars

\* C4: when the response of a lookup arrives after a newer lookup was
\* triggered, its callback leaves the page as it is: the elements on the
\* page stay those of the most recent trigger.
C4_SupersededResponseDiscarded ==
    [][\A r \in Runs :
          (r < triggers /\ runs[r].stage = "replying" /\ runs'[r].stage = "done")
             => dom' = dom]_vars

\* the three outcomes of a handler invocation
IsFound(resp) ==
    /\ resp.statusCode = 200
    /\ resp.body.found = "true"
    /\ resp.body.card # NoCard
    /\ resp.body.error = <<>>

IsNotFound(resp) ==
    /\ resp.statusCode = 200
    /\ resp.body.found = "false"
    /\ resp.body.card = NoCard
    /\ resp.body.error = <<>>

IsFailed(resp) ==
    /\ resp.statusCode \in { 400, 500 }
    /\ resp.body.found = "absent"
    /\ resp.body.card = NoCard
    /\ resp.body.error # <<>>

\* C11: whatever the request body and the outcomes of the external calls, an
\* invocation is only ever waiting for an external call or has returned, no
\* exception escapes it, and what it returned is exactly one of Found (200,
\* found:true with a card), NotFound (200, found:false, no card) and Failed
\* (400 or 500 with an error reason).
C11_OneOutcomeNoEscape ==
    \A h \in Invocations :
        /\ hs[h].pc \in { "idle", "ocr_wait", "rl_wait", "scry_wait", "returned" }
        /\ hs[h].pc = "returned" =>
              \/ IsFound(hs[h].resp) /\ ~IsNotFound(hs[h].resp) /\ ~IsFailed(hs[h].resp)
              \/ ~IsFound(hs[h].resp) /\ IsNotFound(hs[h].resp) /\ ~IsFailed(hs[h].resp)
              \/ ~IsFound(hs[h].resp) /\ ~IsNotFound(hs[h].resp) /\ IsFailed(hs[h].resp)

\* one invocation returned Found while another, whose card-database fetch
\* rejected, returned Failed
C11_Witness ==
    \E h, g \in Invocations :
        /\ hs[h].pc = "returned" /\ IsFound(hs[h].resp)
        /\ hs[g].pc = "returned" /\ hs[g].scry.kind = "reject"
        /\ IsFailed(hs[g].resp)
        /\ hs[g].resp.statusCode = 500

\* the frame of a /lookup-by-name request
ByNameRun(f) == f.pc # "idle" /\ EndsWithLookupByName(EventPath(f.event))

\* C12: a /lookup-by-name invocation never validates an image and never
\* calls the OCR service; when its normalized name is non-empty and the card
\* database answers with a record, it returns HTTP 200 with found:true and
\* the record's name as card.name.
C12_NameOnlyShortcut ==
    \A h \in Invocations :
        ByNameRun(hs[h]) =>
            /\ hs[h].validations = 0
            /\ hs[h].ocrRequests = 0
            /\ hs[h].ocr = NoOcr
            /\ (/\ hs[h].pc = "returned"
                /\ hs[h].cardName # <<>>
                /\ hs[h].scry.kind = "response"
                /\ Ok(hs[h].scry.status)
                /\ hs[h].scry.json = "ok")
               => /\ hs[h].resp.statusCode = 200
                  /\ hs[h].resp.body.found = "true"
                  /\ hs[h].resp.body.card.name = hs[h].scry.record.name

\* a name typed with stray characters was normalized to Bolt and resolved
C12_Witness ==
    \E h \in Invocations :
        /\ ByNameRun(hs[h])
        /\ hs[h].event.name.text = <<" ", "B", "o", "!", "l", "t", "\t">>
        /\ hs[h].cardName = Bolt
        /\ hs[h].pc = "returned"
        /\ hs[h].scryRequests = 1
        /\ hs[h].resp.body.found = "true"
        /\ hs[h].resp.body.card.name = "Lightning Bolt"

\* the number of elements of the page with one of the ids
CountOf(ids) == Cardinality({ i \in 1..Len(dom) : dom[i].id \in ids })

\* C13: in every state of the page there is at most one backdrop and at most
\* one of loading spinner, card overlay, fallback modal and debug overlay.
C13_OneOverlayInstance ==
    /\ CountOf({ "mtg-backdrop" }) <= 1
    /\ CountOf({ "mtg-loading-spinner", "mtg-card-overlay",
                 "mtg-text-input-modal", "mtg-debug-overlay" }) <= 1

\* after two lookups were triggered and answered, the page shows one card
\* overlay over one backdrop
C13_Witness ==
    /\ triggers = 2
    /\ runs[1].stage = "done"
    /\ runs[2].stage = "done"
    /\ CountOf({ "mtg-backdrop" }) = 1
    /\ CountOf({ "mtg-card-overlay" }) = 1
    /\ Len(dom) = 2

\* a run without its history flag: its request and how far it got
RequestOf(run) == [run EXCEPT !.dismissed = FALSE]

EscapeKey ==
    [key |-> "Escape", shiftKey |-> FALSE, target |-> "BODY", code |-> "Escape"]

\* what Escape and the click listeners do to the page at hand
DismissEffect ==
    LET u == Page(dom, runs, triggers)
        v == keydown(u, EscapeKey, NoCanvas)
    IN /\ v = UserDismiss(u)
       /\ v.dom = <<>>
       /\ v.triggers = triggers
       /\ \A r \in Runs : RequestOf(v.runs[r]) = RequestOf(runs[r])
       /\ dom = <<>> => v = u
       /\ dom # <<>> => GetElementById(dom, "mtg-backdrop") # 0

\* C14: in every state of the page (loading, card shown, fallback input,
\* debug overlay) Escape and a click on the backdrop or a close button remove
\* every overlay element at once and leave the requests in flight as they
\* are; on an idle page they change nothing.
C14_DismissalClearsAndKeepsRequests ==
    /\ []DismissEffect
    /\ [][(dom # <<>> /\ dom' = <<>>) =>
             /\ triggers' = triggers
             /\ \A r \in Runs : RequestOf(runs'[r]) = RequestOf(runs[r])]_vars

\* the user dismissed a loading lookup, whose request is still in flight,
\* after an earlier lookup had ended
C14_Witness ==
    /\ dom = <<>>
    /\ runs[1].stage = "done"
    /\ runs[2].dismissed
    /\ InFlight(runs[2])

\* the backend answered found:true with a card that has an image URL
FoundWithImage(http) ==
    /\ http.kind = "response"
    /\ http.resp.statusCode = 200
    /\ http.resp.body.found = "true"
    /\ http.resp.body.card # NoCard
    /\ http.resp.body.card.imageUrl # Null

\* C15: when a region lookup that is the most recent trigger and was not
\* dismissed ends (its response arrives, the messaging fails or its capture
\* fails), the page shows exactly one backdrop and one terminal element of
\* that lookup, never the spinner: the card overlay if and only if the
\* response is found with a card that has an image URL, else the fallback
\* modal.
C15_RegionLookupEnds ==
    [][\A r \in Runs :
          (/\ runs'[r].kind = "region"
           /\ r = triggers'
           /\ ~runs[r].dismissed
           /\ runs[r].stage \notin { "done", "failed" }
           /\ runs'[r].stage \in { "done", "failed" })
          => /\ Len(dom') = 2
             /\ dom'[1].id = "mtg-backdrop"
             /\ dom'[2].run = r
             /\ dom'[2].id = IF FoundWithImage(runs[r].http)
                              THEN "mtg-card-overlay"
                              ELSE "mtg-text-input-modal"]_vars

\* a lookup with a clipped capture ended in the fallback modal, and the next
\* one ended in the card overlay
C15_Witness ==
    /\ runs[1].kind = "region"
    /\ runs[1].stage = "done"
    /\ runs[1].http.resp.statusCode = 400
    /\ runs[2].kind = "region"
    /\ runs[2].stage = "done"
    /\ FoundWithImage(runs[2].http)
    /\ Len(dom) = 2
    /\ dom[2] = Element("mtg-card-overlay", 2, CardView(runs[2].http.resp.body.card))

\* the OCR stage of region lookup `run` detected a name and the backend
\* answered that no card matched
DetectedButNoMatch(run) ==
    /\ run.kind = "region"
    /\ run.stage = "done"
    /\ run.frame.ocrRequests = 1
    /\ run.frame.cardName # <<>>
    /\ run.http.kind = "response"
    /\ run.http.resp.statusCode = 200
    /\ run.http.resp.body.found = "false"

\* C16: the fallback modal shown for a lookup whose OCR stage detected a name
\* and that ended without a match, the card database's not-found included, is
\* pre-filled with the detected name.
C16_FallbackPrefilled ==
    \A i \in 1..Len(dom) :
        (dom[i].id = "mtg-text-input-modal" /\ DetectedButNoMatch(runs[dom[i].run]))
            => dom[i].view.text = runs[dom[i].run].frame.cardName

\* C17: for every cursor point of a viewport at least as large as the
\* capture region, the canvas that captureRegionAroundCursor returns is
\* 250x120, also near the left, right, top and bottom edge.
C17_CaptureFixedSize ==
    (cpPc = "done" /\ cpCanvas.present) =>
        cpCanvas = Canvas(EXPECTED_WIDTH, EXPECTED_HEIGHT)

\* the debug overlay of a debug lookup that the backend answered with 200
AnsweredDebugOverlay(e) ==
    /\ e.id = "mtg-debug-overlay"
    /\ runs[e.run].kind = "debug"
    /\ runs[e.run].stage = "done"
    /\ runs[e.run].http.kind = "response"
    /\ runs[e.run].http.resp.statusCode = 200

\* C18: the debug overlay of a lookup that the backend answered successfully
\* shows the text that the OCR stage detected (the placeholder only when it
\* detected none) and whether a card matched; a detected name without a
\* match is shown as that name together with 'no card match'.
C18_DebugShowsDetectedText ==
    \A i \in 1..Len(dom) :
        AnsweredDebugOverlay(dom[i]) =>
            LET run == runs[dom[i].run]
            IN /\ dom[i].view.message = <<>>
               /\ dom[i].view.text = IF run.frame.cardName # <<>>
                                      THEN run.frame.cardName
                                      ELSE MsgNoTextDetected
               /\ (dom[i].view.card # NoCard)
                     <=> (run.http.resp.body.found = "true")

\* C19: every value that cleanCardName returns has no leading space, no
\* trailing space and no two consecutive spaces.
C19_CleanNormalized ==
    ccPc # "start" =>
        /\ \A i \in 1..Len(ccFirst) : ccFirst[i] \in Whitespace => ccFirst[i] = " "
        /\ ccFirst # <<>> => (ccFirst[1] # " " /\ ccFirst[Len(ccFirst)] # " ")
        /\ \A i \in 1..(Len(ccFirst) - 1) :
              ~(ccFirst[i] = " " /\ ccFirst[i + 1] = " ")

\* the name that the run's OCR call returned: Undefined for none
OcrNameOf(f) ==
    IF f.ocr.kind = "none" \/ performOCR(f.ocr).threw THEN Undefined
    ELSE performOCR(f.ocr).value

\* the run has a name to resolve: its image passed validation, OCR returned
\* a name and the normalized name is not empty
UsableName(f) ==
    /\ f.validations = 1
    /\ validateImage(f.base64)
    /\ f.ocrRequests = 1
    /\ OcrNameOf(f) # Undefined
    /\ f.cardName = cleanCardName(OcrNameOf(f))
    /\ f.cardName # <<>>

\* the name that the run normalized, in either endpoint, came out empty
EmptyNormalizedName(f) ==
    IF EndsWithLookupByName(EventPath(f.event))
    THEN /\ f.event.json = "object"
         /\ f.event.name.type = "string"
         /\ f.event.name.text # <<>>
         /\ cleanCardName(f.event.name.text) = <<>>
    ELSE /\ OcrNameOf(f) # Undefined
         /\ cleanCardName(OcrNameOf(f)) = <<>>

\* C20: a /lookup run waits for the rate limiter or the card database, or
\* has queried it, only with a validated image, a name returned by OCR and a
\* non-empty normalized name; it returns found:true only then, after one
\* card-database request, with detectedName equal to the normalized name; a
\* run whose normalized name is empty returns found:false without any
\* card-database request.
C20_StagesInOrder ==
    \A h \in Invocations :
        /\ (hs[h].pc # "idle" /\ ~EndsWithLookupByName(EventPath(hs[h].event))) =>
              /\ (hs[h].pc \in { "rl_wait", "scry_wait" } \/ hs[h].scryRequests > 0)
                    => UsableName(hs[h])
              /\ (hs[h].pc = "returned" /\ hs[h].resp.body.found = "true")
                    => /\ UsableName(hs[h])
                       /\ hs[h].scryRequests = 1
                       /\ hs[h].resp.body.detectedName = hs[h].cardName
        /\ (hs[h].pc # "idle" /\ EmptyNormalizedName(hs[h])) =>
              /\ hs[h].pc = "returned"
              /\ IsNotFound(hs[h].resp)
              /\ hs[h].scryRequests = 0

\* one /lookup run resolved the name Bolt; in another, OCR returned a text
\* that normalizes to nothing
C20_Witness ==
    \E h, g \in Invocations :
        /\ hs[h].pc = "returned"
        /\ hs[h].resp.body.found = "true"
        /\ hs[h].resp.body.detectedName = Bolt
        /\ hs[h].ocrRequests = 1
        /\ hs[g].pc = "returned"
        /\ hs[g].ocrRequests = 1
        /\ EmptyNormalizedName(hs[g])

\* the run's message went to the worker, whose listener issues one fetch
Sent(run) == run.stage \in { "fetching", "replying", "done" }

\* the lookups that a step starts
Started == { r \in Runs : triggers < r /\ r <= triggers' }

OcrSuccess(o) == o.kind = "response" /\ Ok(o.status) /\ o.json = "ok"

\* the text fragments of the answer's first candidate, joined by spaces and
\* trimmed; empty for an answer without candidates
OcrText(o) == IF o.hasCandidates THEN Trim(JoinTexts(o.parts)) ELSE <<>>

\* C22: performOCR sends one request. A 401 or 403 answer throws the
\* invalid-key error, a 429 answer throws the rate-limit error, every other
\* non-success answer throws an error that carries the status and the body;
\* for a success it returns the space-joined, trimmed text, or null exactly
\* when that text is empty or is the sentinel NONE, and never an empty string.
C22_OcrMapping ==
    poPc = "done" =>
        /\ poRequests = 1
        /\ (poOutcome.kind = "response" /\ ~Ok(poOutcome.status)) =>
              /\ poResult.threw
              /\ poResult.message = MsgInvalidKey
                    <=> poOutcome.status \in { 401, 403 }
              /\ poResult.message = MsgRateLimit <=> poOutcome.status = 429
              /\ poOutcome.status \notin { 401, 403, 429 } =>
                    /\ Includes(poResult.message, <<ToString(poOutcome.status)>>)
                    /\ Includes(poResult.message, poOutcome.errorBody)
        /\ OcrSuccess(poOutcome) =>
              /\ ~poResult.threw
              /\ poResult.value = Undefined
                    <=> OcrText(poOutcome) \in { <<>>, NONE }
              /\ poResult.value # Undefined
                    => poResult.value = OcrText(poOutcome)
        /\ poResult.value # <<>>

\* a blank fragment and the sentinel came back: the joined text is trimmed
\* to NONE and performOCR returned null after its one request
C22_Witness ==
    /\ poPc = "done"
    /\ poRequests = 1
    /\ poOutcome = OcrParts(<< <<" ">>, NONE >>)
    /\ ~poResult.threw
    /\ poResult.value = Undefined

\* the page shows the loading indicator
HasSpinner(d) == GetElementById(d, "mtg-loading-spinner") # 0

\* the page shows the loading indicator that lookup r put up
SpinnerOf(d, r) ==
    \E i \in 1..Len(d) : d[i].id = "mtg-loading-spinner" /\ d[i].run = r

\* a step in which the callback of some lookup's message ran
ResponseArrives == \E r \in Runs : runs[r].stage # "done" /\ runs'[r].stage = "done"

\* a step in which the user dismissed the overlay
UserDismisses ==
    /\ dom' = <<>>
    /\ triggers' = triggers
    /\ \A r \in Runs : runs'[r].stage = runs[r].stage

\* a loading indicator goes away only when a response arrives or the user
\* dismisses it (the claim as it is worded)
C23_SpinnerStaysUntilResponse ==
    [][(HasSpinner(dom) /\ ~HasSpinner(dom'))
          => (ResponseArrives \/ UserDismisses)]_vars

\* C23: handleCardLookup and handleCardLookupWithName put the loading
\* indicator of the new lookup on the page whatever the capture then gives
\* and before the request is sent; a lookup that was triggered last and is
\* with the worker shows its indicator after the trigger; and the indicator
\* of a lookup goes away only when a response arrives, the user dismisses it
\* or a new trigger replaces the overlay.
C23_SpinnerShownOnTrigger ==
    /\ [](triggers < Len(runs) =>
            /\ \A canvas \in Canvases :
                  SpinnerOf(handleCardLookup(Page(dom, runs, triggers), canvas).dom,
                            triggers + 1)
            /\ \A value \in TypedNames :
                  Trim(value) # <<>> =>
                      SpinnerOf(submit(Page(dom, runs, triggers), value).dom,
                                triggers + 1))
    /\ [][/\ \A r \in Started :
                (/\ r = triggers'
                 /\ runs'[r].kind \in { "region", "name" }
                 /\ runs'[r].stage = "fetching") => SpinnerOf(dom', r)
          /\ \A r \in Runs :
                (SpinnerOf(dom, r) /\ ~SpinnerOf(dom', r))
                    => \/ ResponseArrives
                       \/ UserDismisses
                       \/ triggers' > triggers]_vars

\* the region lookup has ended in the fallback modal, and the indicator of
\* the name lookup that the user then submitted is on the page while its
\* request is with the worker
C23_Witness ==
    /\ runs[1].kind = "region"
    /\ runs[1].stage = "done"
    /\ runs[2].kind = "name"
    /\ runs[2].stage = "fetching"
    /\ SpinnerOf(dom, 2)
    /\ dom[Len(dom)].view.text = Bolt

\* start and end of the capture rectangle along one axis lie in the
\* viewport, in order, and no further apart than the region (doubled units)
ExtentInside(cursor, region, inner) ==
    /\ 0 <= RegionStart2(cursor, region)
    /\ RegionStart2(cursor, region) <= RegionEnd2(cursor, region, inner)
    /\ RegionEnd2(cursor, region, inner) <= 2 * inner
    /\ RegionEnd2(cursor, region, inner) - RegionStart2(cursor, region)
          <= 2 * region

\* C24: for every cursor point inside the viewport, the rectangle that
\* captureRegionAroundCursor computes has 0 <= startX <= endX <= innerWidth
\* and 0 <= startY <= endY <= innerHeight, is at most 125 wide and 60 high,
\* and the canvas it returns has that rectangle's size at scale 2.
C24_CaptureInsideViewport ==
    (cpPc = "done" /\ cpCanvas.present) =>
        /\ ExtentInside(cpCursor[1], RegionWidth, cpViewport[1])
        /\ ExtentInside(cpCursor[2], RegionHeight, cpViewport[2])
        /\ cpCanvas.width
              = RegionEnd2(cpCursor[1], RegionWidth, cpViewport[1])
                  - RegionStart2(cpCursor[1], RegionWidth)
        /\ cpCanvas.width <= CaptureScale * RegionWidth
        /\ cpCanvas.height <= CaptureScale * RegionHeight

\* a capture at the bottom right corner: both ends were clamped to the
\* viewport and the canvas is smaller than the region
C24_Witness ==
    /\ cpPc = "done"
    /\ cpCanvas.present
    /\ cpCursor = <<cpViewport[1] - 1, cpViewport[2] - 1>>
    /\ RegionEnd2(cpCursor[1], RegionWidth, cpViewport[1]) = 2 * cpViewport[1]
    /\ cpCanvas.width < CaptureScale * RegionWidth
    /\ cpCanvas.height < CaptureScale * RegionHeight

\* the invocations whose lookupCard has passed rateLimitScryfall
PastRateLimit == { h \in Invocations : hs[h].scryRequests > 0 }

\* C25: lastScryfallCall starts at 0 and is 0 only until the first write;
\* every lookupCard invocation that passes rateLimitScryfall writes the
\* current time to it, one write per invocation, whether the card-database
\* call then succeeds or fails; the settling of a call, success or failure,
\* leaves it alone; it never decreases.
C25_TimestampLifecycle ==
    /\ [](/\ lastScryfallCall = 0 <=> PastRateLimit = {}
          /\ Len(scryfallLog) = Cardinality(PastRateLimit)
          /\ scryfallLog # <<>> =>
                lastScryfallCall = scryfallLog[Len(scryfallLog)]
          /\ lastScryfallCall <= clock)
    /\ [][/\ lastScryfallCall' >= lastScryfallCall
          /\ \A h \in Invocations :
                /\ hs'[h].scryRequests > hs[h].scryRequests
                      => lastScryfallCall' = clock
                /\ (hs[h].pc = "scry_wait" /\ hs'[h].pc = "returned")
                      => lastScryfallCall' = lastScryfallCall]_vars

\* one lookup ended in a 404 and another found its card, the second one
\* having written a later time than the process start
C25_Witness ==
    \E h, g \in Invocations :
        /\ hs[h].pc = "returned"
        /\ hs[h].scryRequests = 1
        /\ IsNotFound(hs[h].resp)
        /\ hs[g].pc = "returned"
        /\ hs[g].scryRequests = 1
        /\ IsFound(hs[g].resp)
        /\ lastScryfallCall > ProcessStart
        /\ Len(scryfallLog) = 2

\* C26: no step of the page, a key press among them, starts more than one
\* lookup: a key press starts the region lookup or the debug capture, never
\* both, whatever its key, code and shift state.
C26_OneRunPerKeyPress == [][Cardinality(Started) <= 1]_vars

\* the worker's fetch for the run has settled
Settled(run) == run.http.kind # "none"

\* the response that the worker sends for a settled run is success:true
\* with the backend's body for a 2xx answer, and success:false with an error
\* message for every other answer and for a transport failure
ReplyMatches(run) ==
    LET reply == WorkerReply(run.http)
        ok == run.http.kind = "response" /\ run.http.resp.statusCode \in 200..299
    IN /\ reply.success <=> ok
       /\ reply.success =>
             /\ reply.found = run.http.resp.body.found
             /\ reply.card = run.http.resp.body.card
             /\ reply.detectedName = run.http.resp.body.detectedName
       /\ ~reply.success =>
             /\ reply.error # <<>>
             /\ reply.found = "absent"
             /\ reply.card = NoCard

\* C27: for every lookup message the worker calls sendResponse once, and
\* only when its fetch has settled: a run whose request is pending has no
\* response, a run enters the replying stage only from the pending one and
\* leaves it only when the response is delivered, and the response is
\* success:true with the backend's body exactly for a 2xx answer, and
\* success:false with an error message otherwise.
C27_OneResponsePerMessage ==
    /\ [](\A r \in Runs :
            /\ runs[r].stage = "fetching" => ~Settled(runs[r])
            /\ runs[r].stage = "replying" => Settled(runs[r])
            /\ Settled(runs[r]) =>
                  /\ runs[r].stage \in { "replying", "done" }
                  /\ ReplyMatches(runs[r]))
    /\ [][\A r \in Runs :
            /\ (runs'[r].stage = "replying" /\ runs[r].stage # "replying")
                  => runs[r].stage = "fetching"
            /\ runs[r].stage = "replying"
                  => /\ runs'[r].stage \in { "replying", "done" }
                     /\ runs'[r].http = runs[r].http
            /\ (Settled(runs[r]) /\ runs[r].stage = "done")
                  => (runs'[r].stage = "done" /\ runs'[r].http = runs[r].http)]_vars

\* the first lookup was answered with HTTP 500 and success:false; the
\* worker is answering the second with the 200 body and success:true
C27_Witness ==
    /\ runs[1].stage = "done"
    /\ runs[1].http.kind = "response"
    /\ runs[1].http.resp.statusCode = 500
    /\ ~WorkerReply(runs[1].http).success
    /\ runs[2].stage = "replying"
    /\ runs[2].http.kind = "response"
    /\ runs[2].http.resp.statusCode = 200
    /\ WorkerReply(runs[2].http).success
    /\ WorkerReply(runs[2].http).found = "true"

\* C28: every handler invocation that was started returns a response, when
\* its external calls complete, timers fire and time passes, under any
\* interleaving of concurrent invocations; a call that rateLimitScryfall
\* suspends waits for at most one floor interval from the moment it is
\* suspended, whatever the other calls do.
C28_EveryInvocationReturns ==
    /\ \A h \in 1..MaxCalls : (hs[h].pc # "idle") ~> (hs[h].pc = "returned")
    /\ [][\A h \in Invocations :
            (hs[h].pc # "rl_wait" /\ hs'[h].pc = "rl_wait")
                => /\ hs'[h].wakeAt > clock
                   /\ hs'[h].wakeAt <= clock + SCRYFALL_RATE_LIMIT_MS]_vars

\* two calls are suspended by the rate limiter at the same time, after the
\* call of a third invocation went out and that invocation returned
C28_Witness ==
    \E h, g, k \in Invocations :
        /\ h # g
        /\ hs[h].pc = "rl_wait"
        /\ hs[h].wakeAt > clock
        /\ hs[g].pc = "rl_wait"
        /\ hs[k].pc = "returned"
        /\ hs[k].scryRequests = 1

====
